---- MODULE Spec2Model ----
(***************************************************************************)
(* A model of the FlexFlag Python SDK client (sdks/python/flexflag):       *)
(* the evaluation pipeline of FlexFlagClient (client.py) over the cache    *)
(* providers of cache.py.                                                  *)
(*                                                                         *)
(* A step of the model is the code a coroutine runs between two points at  *)
(* which it may suspend (a cache operation, an HTTP request, a sleep).     *)
(* Fields of a record whose name starts with g_ are history: they record   *)
(* what was done and are never read by the modelled code.                  *)
(***************************************************************************)
EXTENDS Integers, Sequences, FiniteSets, TLC

\* ------------------------------------------------------------------ bounds
MaxCalls == 2        \* evaluate / evaluate_batch calls issued by the host
MaxRetry == 2        \* largest connection.retry_attempts configured
MaxTime == 2         \* the clock runs from 0 to MaxTime
MaxBatch == 2        \* longest flag_keys list given to evaluate_batch
CacheTTL == 1        \* cache.ttl of the configuration, in clock ticks

\* ------------------------------------------------------------------ values
None == "None"                       \* Python's None
Absent == "<absent>"                 \* a key that a mapping does not hold
Flags == {"a", "b"}
Values == {"v1", "v2"}               \* the flag values other than None
FlagValues == Values \cup {None}     \* types.py FlagValue, None included
CallerDefaults == {None, "v2"}         \* the default_value arguments in use
Contexts == {"u1"}                   \* the EvaluationContext objects in use
SharedContexts == {"u1", "u2"}       \* the contents given to self.context
environment == "production"
Tasks == {1, 2}                      \* coroutines of the host application
SerialTasks == {1}                   \* the host awaits each call in turn

\* config.offline.default_flags: "a" has an offline default, "b" has none.
default_flags == [f \in Flags |-> IF f = "a" THEN "v1" ELSE Absent]

Storages == {"none", "memory", "disk", "redis"}
Modes == {"streaming", "offline"}

VARIABLES
    config,        \* FlexFlagConfig: storage, mode, retry_attempts, offline_enabled
    session,       \* self._session: "none" | "open" | "closed"
    offline_mode,  \* self._offline_mode
    ready,         \* self._ready is set
    context,       \* self.context
    store,         \* the rows of the cache backend, by prefixed key
    lock,          \* holder of the provider's asyncio.Lock, 0 when free
    now,           \* time.time()
    metrics,       \* self.metrics (SDKMetrics)
    call,          \* per task: the frame of its evaluate call
    ncalls,        \* evaluate calls issued so far
    g_written,     \* history: the last row a write-back stored
    cacheop,       \* the host's direct use of a provider: its last operation
    tiers,         \* the rows of the tiers of a TieredCache
    redis,         \* the keys of the Redis server, this provider's and others
    probe,         \* the last call of a function of the SDK by the host
    life,          \* the sessions and polling tasks created, and who runs what
    composite      \* the TieredCache's own lock and the calls made through it

vars == <<config, session, offline_mode, ready, context, store, lock, now,
          metrics, call, ncalls, g_written, cacheop, tiers, redis,
          probe, life, composite>>

\* ------------------------------------------------------------ cache keys
\* FlexFlagClient._build_cache_key: no context segment without a context.
BuildCacheKey(flag_key, ctx) ==
    IF ctx = None THEN <<flag_key, environment>>
    ELSE <<flag_key, ctx, environment>>

CacheKeys ==
    {BuildCacheKey(f, c) : f \in Flags, c \in Contexts \cup SharedContexts \cup {None}}

NoRow == [present |-> FALSE, value |-> None, expires_at |-> 0]

\* ------------------------------------------------------------ providers
\* Whether the row is past its expiry, as each provider's read decides it:
\* cachetools.TTLCache drops an item once not (now < expires); Redis drops
\* a key once its TTL has run out; DiskCache compares expires_at < now.
RowExpired(storage, row, t) ==
    IF storage = "disk" THEN row.expires_at < t
    ELSE ~(t < row.expires_at)

\* DiskCache.get calls self.delete(key) while it holds self._lock; delete
\* acquires the same asyncio.Lock, which is not reentrant.
GetBlocks(storage, row, t) ==
    storage = "disk" /\ row.present /\ RowExpired(storage, row, t)

\* What provider.get(key) returns when it returns.
ProviderGet(storage, row, t) ==
    IF row.present /\ ~RowExpired(storage, row, t) THEN row.value ELSE None

\* The ttl arguments in use: none, the configured ttl, a longer one. No
\* ttl (ttl = None) is written 0, which `ttl or self.config.ttl` does not
\* tell from None.
NoTtl == 0
TTLs == {NoTtl, CacheTTL, CacheTTL + 1}

\* The ttl a provider gives a row: MemoryCache.set does not use its ttl
\* argument (TTLCache applies config.ttl); DiskCache.set and RedisCache.set
\* use `ttl or self.config.ttl`.
EffectiveTtl(storage, ttl) ==
    IF storage = "memory" \/ ttl = NoTtl THEN CacheTTL ELSE ttl

\* provider.set(key, value, ttl): the row written.
ProviderSetTtl(storage, value, ttl, t) ==
    [present |-> TRUE, value |-> value,
     expires_at |-> t + EffectiveTtl(storage, ttl)]

\* provider.set(key, value): the row written (ttl is the configured one).
ProviderSet(storage, value, t) == ProviderSetTtl(storage, value, NoTtl, t)

\* DiskCache._cleanup_expired: DELETE ... WHERE expires_at <= now.
CleanupExpired(st, t) ==
    [k \in DOMAIN st |->
        IF st[k].present /\ st[k].expires_at <= t THEN NoRow ELSE st[k]]

\* DiskCache.set cleans up when hash(key) % 100 = 0; the hash of a string
\* differs from process to process.
CleanupChoices(storage) == IF storage = "disk" THEN BOOLEAN ELSE {FALSE}

\* The rows after provider.set(key, value).
StoreAfterSet(storage, st, key, value, t, cleanup) ==
    LET st1 == [st EXCEPT ![key] = ProviderSet(storage, value, t)]
    IN IF cleanup THEN CleanupExpired(st1, t) ELSE st1

\* The backends whose operations can fail with an I/O error.
CanFail(storage) == storage \in {"disk", "redis"}
IoOutcomes(storage) == IF CanFail(storage) THEN {"ok", "io_error"} ELSE {"ok"}

\* ------------------------------------------------------------ results
NoResult == [value |-> None, reason |-> "NONE", cache_hit |-> FALSE,
             source |-> "none", variation |-> None]

CachedResult(v) ==
    [value |-> v, reason |-> "CACHED", cache_hit |-> TRUE, source |-> "cache",
     variation |-> None]

\* A variant that prefers the caller's default_value to the configured one.
EvaluateOffline_CallerFirst(flag_key, default_value) ==
    [value |-> IF default_value # None THEN default_value
               ELSE IF default_flags[flag_key] # Absent
               THEN default_flags[flag_key] ELSE None,
     reason |-> "OFFLINE", cache_hit |-> FALSE, source |-> "offline",
     variation |-> None]

\* FlexFlagClient._evaluate_offline
EvaluateOffline(flag_key, default_value) ==
    [value |-> IF default_flags[flag_key] # Absent THEN default_flags[flag_key]
               ELSE default_value,
     reason |-> "OFFLINE", cache_hit |-> FALSE, source |-> "offline",
     variation |-> None]

\* A response of POST /api/v1/evaluate: its status and, for 200, its body.
\* "timeout" stands for an exception raised by the request itself (timeout,
\* connection error).
\* A body names its variation when the flag matched a targeting rule.
ServerValues == {"v1", None, Absent}   \* Absent: the body has no "value"
VariationOf(matched) == IF matched THEN "treatment" ELSE None
OkResponses ==
    {[status |-> "200", value |-> v, matched |-> m,
      variation |-> VariationOf(m)] :
        v \in ServerValues, m \in BOOLEAN}
FailStatuses == {"404", "401", "500", "timeout"}
FailResponses ==
    {[status |-> s, value |-> Absent, matched |-> FALSE, variation |-> None] :
        s \in FailStatuses}
Responses == OkResponses \cup FailResponses

\* _evaluate_remote, status 200: data.get("value", default_value)
RemoteResult(resp, default_value) ==
    [value |-> IF resp.value = Absent THEN default_value ELSE resp.value,
     reason |-> IF resp.matched THEN "TARGETING_MATCH" ELSE "DEFAULT",
     cache_hit |-> FALSE, source |-> "remote", variation |-> resp.variation]

\* _evaluate_remote, status 404
NotFoundResult(default_value) ==
    [value |-> default_value, reason |-> "DEFAULT", cache_hit |-> FALSE,
     source |-> "none", variation |-> None]

\* A variant without the 404 branch: not-found raises like any other status.
ReturnsResult_No404(status) == status = "200"

\* _evaluate_remote: which statuses return a result instead of raising.
ReturnsResult(status) == status \in {"200", "404"}

\* A variant off by one: the re-raise comes one attempt late.
IsLastAttempt_OneLate(attempt, retry_attempts) == attempt = retry_attempts

\* _evaluate_remote's except clause: the last attempt re-raises.
IsLastAttempt(attempt, retry_attempts) == attempt = retry_attempts - 1

\* evaluate_with_details line 218
IsOffline(off, mode) == off \/ mode = "offline"

\* ------------------------------------------------------------ frames
\* average_latency_ms is a float: the model keeps it exact, as a fraction
\* in lowest terms. g_sum and g_count are the sum and the number of the
\* latency samples recorded so far.
NoMetrics == [evaluations |-> 0, cache_hits |-> 0, cache_misses |-> 0,
              errors |-> 0, network_requests |-> 0,
              average_latency_ms |-> [num |-> 0, den |-> 1],
              g_sum |-> 0, g_count |-> 0]

RECURSIVE GCD(_, _)
GCD(a, b) == IF b = 0 THEN a ELSE GCD(b, a % b)
Reduce(num, den) ==
    IF num = 0 THEN [num |-> 0, den |-> 1]
    ELSE [num |-> num \div GCD(num, den), den |-> den \div GCD(num, den)]

\* FlexFlagClient._update_average_latency
UpdateAverageLatency(m, latency_ms) ==
    IF m.evaluations = 0
    THEN [m EXCEPT !.average_latency_ms = [num |-> latency_ms, den |-> 1]]
    ELSE LET total_evaluations == m.evaluations + 1
             avg == m.average_latency_ms
         IN [m EXCEPT !.average_latency_ms =
                Reduce(avg.num * m.evaluations + latency_ms * avg.den,
                       avg.den * total_evaluations)]

\* evaluation_time = (time.time() - start_time) * 1000, then
\* self._update_average_latency(evaluation_time).
RecordLatency(m, start_time, t) ==
    LET evaluation_time == (t - start_time) * 1000
    IN [UpdateAverageLatency(m, evaluation_time) EXCEPT
            !.g_sum = @ + evaluation_time, !.g_count = @ + 1]

\* A mapping from flag keys to values, as a function that is Absent where
\* the mapping has no key.
EmptyMap == [f \in Flags |-> Absent]
KeysOf(m) == {f \in Flags : m[f] # Absent}
Range(seq) == {seq[i] : i \in 1..Len(seq)}
\* dict.update
Update(m1, m2) == [f \in Flags |-> IF m2[f] # Absent THEN m2[f] ELSE m1[f]]

\* evaluation_context = context or self.context: the object the call holds
\* is the client's own when ctx_shared, and then its content is `context`.
Unsent == "<unsent>"
ContextNow(c) == IF c.ctx_shared THEN context ELSE c.ctx

IdleCall ==
    [pc |-> "idle", op |-> "none", flag_key |-> None, default_value |-> None,
     ctx |-> None, cache_key |-> <<>>, attempt |-> 0, result |-> NoResult,
     start_time |-> 0,
     outcome |-> "none", terminal |-> "none",
     flag_keys |-> <<>>, i |-> 0, cache_hits |-> EmptyMap,
     cache_misses |-> <<>>, results |-> EmptyMap,
     remote_results |-> EmptyMap, pending |-> <<>>,
     g_reqlog |-> <<>>, g_events |-> <<>>, g_m0 |-> NoMetrics,
     g_lookup |-> <<>>, g_set |-> "none", g_batchreq |-> <<>>,
     g_sleeps |-> <<>>,
     ctx_shared |-> FALSE, g_payload |-> Unsent,
     g_keys |-> [f \in Flags |-> <<>>], g_setkeys |-> [f \in Flags |-> <<>>]]

NoWrite == [key |-> <<>>, value |-> None]

Bump(m, field) == [m EXCEPT ![field] = @ + 1]

\* ------------------------------------------------------------ initial state
OfflineEnabledChoices == {TRUE}      \* types.py line 60: the default
DefaultRetryAttempts == 3            \* types.py line 52
DefaultRetryDelay == 1               \* types.py line 53, in seconds
Configs ==
    [storage : Storages, mode : Modes,
     retry_attempts : 0..MaxRetry \cup {DefaultRetryAttempts},
     offline_enabled : OfflineEnabledChoices,
     retry_delay : {DefaultRetryDelay}, exponential_backoff : {TRUE}]

\* The configurations of the single-flag pipeline. An offline client makes
\* no request: its retry_attempts is left at the default.
SingleConfigs ==
    {cf \in Configs :
        IF cf.mode = "offline" THEN cf.retry_attempts = DefaultRetryAttempts
        ELSE cf.retry_attempts <= MaxRetry}

\* The configurations of the batch pipeline, which does not retry: its
\* retry_attempts is left at the default.
BatchConfigs == {cf \in Configs : cf.retry_attempts = DefaultRetryAttempts}

\* A call through a TieredCache: where it is, the tier it is at (i), the
\* tiers still to write, and the value it found or stores.
IdleOp == [pc |-> "idle", op |-> "none", key |-> <<>>, value |-> None,
           i |-> 0, todo |-> {}, ret |-> None, g_waited |-> FALSE]
NoComposite == [lock |-> 0, ops |-> [t \in Tasks |-> IdleOp]]

\* The host has called no function of the SDK directly.
NoProbe == [op |-> "none", args |-> <<>>, ret |-> <<>>, g_probe_ok |-> TRUE]

\* Nothing created yet: no ClientSession, no polling task (self._session
\* and self._polling_task are None, here 0), no wait_for_ready or close
\* under way.
NoLife == [sessions |-> <<>>, session_ref |-> 0,
           polling |-> <<>>, polling_ref |-> 0,
           pc |-> [t \in Tasks |-> "idle"],
           awaited |-> [t \in Tasks |-> 0],
           close_ret |-> "none", closes |-> 0]

\* The host has not used the provider: no operation, no entry put.
NoPut == [live |-> FALSE, at |-> 0, ttl |-> 0, value |-> None]
NoCacheOp == [op |-> "none", key |-> <<>>, ret |-> None, at |-> 0,
              g_evicted |-> {}, g_tiers |-> <<>>,
              g_puts |-> [k \in CacheKeys |-> NoPut]]

\* The keys of a Redis server, as sequences of characters: one or two of
\* an ordinary character and of "?", which KEYS reads as a wildcard.
RedisChars == {"a", "?"}
RedisKeys == UNION {[1..n -> RedisChars] : n \in 1..2}

\* The TieredCaches in use: a memory and a disk provider, in either order.
\* Tier i of the code is element i + 1 of the sequence.
TierStorages == <<"memory", "disk">>
TierOrders == {TierStorages, <<"disk", "memory">>}

\* The client as FlexFlagClient.__init__ leaves it.
Constructed ==
    /\ session = "none"
    /\ offline_mode = FALSE
    /\ ready = FALSE
    /\ context = None
    /\ store = [k \in CacheKeys |-> NoRow]
    /\ lock = 0
    /\ now = 0
    /\ metrics = NoMetrics
    /\ call = [t \in Tasks |-> IdleCall]
    /\ ncalls = 0
    /\ g_written = NoWrite
    /\ cacheop = NoCacheOp
    /\ tiers = [i \in 1..Len(TierStorages) |-> [k \in CacheKeys |-> NoRow]]
    /\ redis = [k \in RedisKeys |-> Absent]
    /\ probe = NoProbe
    /\ life = NoLife
    /\ composite = NoComposite

Init == config \in SingleConfigs /\ Constructed

InitBatch == config \in BatchConfigs /\ Constructed

\* ------------------------------------------------------------ wait_for_ready
\* _test_connection can fail only if it probes: not in offline mode, and
\* its loop has an iteration.
ProbeOutcomes(cf) ==
    IF cf.mode = "offline" \/ cf.retry_attempts = 0 THEN {TRUE} ELSE BOOLEAN

\* A variant of _initialize that goes back online when the probe succeeds.
OfflineAfterInit_Reset(was_offline, probe_ok, offline_enabled) ==
    ~probe_ok /\ offline_enabled

\* self._offline_mode after _initialize: set in the except clause when
\* offline.enabled, and assigned nowhere else.
OfflineAfterInit(was_offline, probe_ok, offline_enabled) ==
    IF ~probe_ok /\ offline_enabled THEN TRUE ELSE was_offline

\* What wait_for_ready gives the host: True, or the error of _initialize.
\* g_probe_ok is history: whether the health probe succeeded.
ReadyCall(probe_ok, offline_enabled) ==
    [op |-> "wait_for_ready", args |-> <<>>,
     ret |-> IF probe_ok \/ offline_enabled THEN <<"True">> ELSE <<"raised">>,
     g_probe_ok |-> probe_ok]

\* FlexFlagClient._initialize: a new session; the health probe unless the
\* mode is offline; on a failed probe, offline mode when offline.enabled,
\* else the error is raised and the client is not ready.
WaitForReady(t) ==
    /\ call[t].pc = "idle"
    /\ session' = "open"
    /\ \E probe_ok \in ProbeOutcomes(config) :
          /\ probe' = ReadyCall(probe_ok, config.offline_enabled)
          /\ offline_mode' = OfflineAfterInit(offline_mode, probe_ok,
                                              config.offline_enabled)
          /\ ready' = (ready \/ probe_ok \/ config.offline_enabled)
    /\ UNCHANGED <<config, context, store, lock, now, metrics, call, ncalls,
                   g_written,
                   cacheop, tiers, redis, life, composite>>

\* ------------------------------------------------------------ evaluate
\* evaluate_with_details up to its first await: the context is chosen and
\* the cache key is built (lines 182-188).
EvaluateWithDetails(t, flag_key, ctx_arg, default_value) ==
    /\ call[t].pc = "idle"
    /\ ncalls < MaxCalls
    /\ ncalls' = ncalls + 1
    /\ LET ctx == IF ctx_arg # None THEN ctx_arg ELSE context
       IN call' = [call EXCEPT ![t] =
            [IdleCall EXCEPT !.pc = "cache_get", !.op = "single",
                             !.flag_key = flag_key,
                             !.start_time = now,
                             !.default_value = default_value,
                             !.ctx = ctx,
                             !.ctx_shared = (ctx_arg = None /\ context # None),
                             !.cache_key = BuildCacheKey(flag_key, ctx),
                             !.g_m0 = metrics]]
    /\ UNCHANGED <<config, session, offline_mode, ready, context, store, lock,
                   now, metrics,
                   g_written,
                   cacheop, tiers, redis, probe, life, composite>>

\* A variant whose except clause reports the error and raises it again.
FallBack_Reraise(c, kind) ==
    [c EXCEPT !.pc = "done", !.outcome = "raised",
              !.terminal = "none",
              !.g_events = Append(@, <<"on_error", kind>>)]

\* The except clause of evaluate_with_details (lines 236-244): the error is
\* counted and reported, and the offline value is returned.
FallBack(c, kind) ==
    [c EXCEPT !.pc = "done", !.outcome = "returned",
              !.terminal = "offline-fallback",
              !.result = EvaluateOffline(c.flag_key, c.default_value),
              !.g_events = Append(@, <<"on_error", kind>>)]

\* A variant that writes back the count read when the call began: an update
\* made by another call in between is lost.
CountEvaluation_Stale(c, m) ==
    [m EXCEPT !.evaluations = c.g_m0.evaluations + 1]

\* self.metrics.evaluations += 1 (lines 191 and 227): read and written
\* without a suspension point in between.
CountEvaluation(c, m) == Bump(m, "evaluations")

\* A variant that counts the remote call twice.
CountRequest_Twice(m) == Bump(Bump(m, "network_requests"), "network_requests")

\* _evaluate_remote line 340 and _evaluate_batch_remote line 394, ahead of
\* the request: self.metrics.network_requests += 1.
CountRequest(m) == Bump(m, "network_requests")

\* A variant whose except clause does not count the error.
CountError_Silent(m) == m

\* The except clause counts the error (line 238).
CountError(m) == Bump(m, "errors")

\* A variant of the test that takes every lookup for a hit.
IsHit_Always(cached) == TRUE

\* if cached_result is not None
IsHit(cached) == cached # None

\* evaluate_with_details after the lookup returned `cached` (lines 190-222,
\* and _evaluate_remote up to its first request).
AfterLookup(c, cached, m) ==
    IF IsHit(cached)
    THEN [c |-> [c EXCEPT !.pc = "done", !.outcome = "returned",
                          !.terminal = "cached-hit",
                          !.result = CachedResult(cached),
                          !.g_events = Append(@, <<"on_cache_hit", c.flag_key>>)],
          m |-> RecordLatency(Bump(CountEvaluation(c, m), "cache_hits"),
                              c.start_time, now)]
    ELSE LET c1 == [c EXCEPT !.g_events =
                        Append(@, <<"on_cache_miss", c.flag_key>>)]
             m1 == Bump(m, "cache_misses")
         IN IF IsOffline(offline_mode, config.mode)
            THEN [c |-> [c1 EXCEPT !.pc = "done", !.outcome = "returned",
                                   !.terminal = "offline-result",
                                   !.result = EvaluateOffline(c.flag_key,
                                                              c.default_value)],
                  m |-> m1]
            ELSE IF config.retry_attempts = 0
            THEN \* the for loop has no iteration: line 378 raises
                 [c |-> FallBack(c1, "exhausted"),
                  m |-> CountError(CountRequest(m1))]
            ELSE [c |-> [c1 EXCEPT !.pc = "http", !.attempt = 0,
                                   !.g_payload = ContextNow(c)],
                  m |-> CountRequest(m1)]

\* A variant whose test for a missing cache is inverted: it never reads.
GetFromCache_NeverReads(storage, io, row, t) ==
    IF storage # "none" \/ io = "io_error" THEN None
    ELSE ProviderGet(storage, row, t)

\* A variant without the except clause of _get_from_cache, the error taken
\* for what the cache returned.
GetFromCache_Unguarded(storage, io, row, t) ==
    IF storage = "none" THEN None
    ELSE IF io = "io_error" THEN "<error>"
    ELSE ProviderGet(storage, row, t)

\* _get_from_cache: no cache, or cache.get with its exception swallowed.
GetFromCache(storage, io, row, t) ==
    IF storage = "none" \/ io = "io_error" THEN None
    ELSE ProviderGet(storage, row, t)

\* The lookup of evaluate_with_details: await self._get_from_cache(key).
CacheGet(t) ==
    /\ call[t].pc = "cache_get"
    /\ lock = 0
    /\ \E io \in IoOutcomes(config.storage) :
        LET c == call[t]
            row == store[c.cache_key]
            obs == [held |-> IF config.storage # "none"
                             THEN ProviderGet(config.storage, row, now)
                             ELSE None,
                    io |-> io]
            c0 == [c EXCEPT !.g_lookup = Append(@, obs)]
        IN IF io = "ok" /\ GetBlocks(config.storage, row, now)
           THEN /\ lock' = t
                /\ call' = [call EXCEPT ![t] = [c0 EXCEPT !.pc = "lock_wait"]]
                /\ UNCHANGED metrics
           ELSE LET r == AfterLookup(c0, GetFromCache(config.storage, io, row, now),
                                     metrics)
                IN /\ call' = [call EXCEPT ![t] = r.c]
                   /\ metrics' = r.m
                   /\ UNCHANGED lock
    /\ UNCHANGED <<config, session, offline_mode, ready, context, store, now,
                   ncalls,
                   g_written,
                   cacheop, tiers, redis, probe, life, composite>>

\* One iteration of _evaluate_remote's retry loop: the request and the
\* handling of its response or exception (lines 343-375).
HttpAttempt(t) ==
    /\ call[t].pc = "http"
    /\ \E resp \in (IF session = "open" THEN Responses
                    ELSE {[status |-> "no_session", value |-> Absent,
                           matched |-> FALSE, variation |-> None]}) :
        LET c == call[t]
            c0 == [c EXCEPT !.g_reqlog = Append(@, resp.status)]
        IN IF ReturnsResult(resp.status)
           THEN /\ call' = [call EXCEPT ![t] =
                     [c0 EXCEPT !.pc = "cache_set",
                                !.result = IF resp.status = "200"
                                           THEN RemoteResult(resp, c.default_value)
                                           ELSE NotFoundResult(c.default_value)]]
                /\ UNCHANGED metrics
           ELSE IF IsLastAttempt(c.attempt, config.retry_attempts)
           THEN /\ call' = [call EXCEPT ![t] = FallBack(c0, resp.status)]
                /\ metrics' = CountError(metrics)
           ELSE /\ call' = [call EXCEPT ![t] = [c0 EXCEPT !.pc = "sleep"]]
                /\ UNCHANGED metrics
    /\ UNCHANGED <<config, session, offline_mode, ready, context, store, lock,
                   now, ncalls,
                   g_written,
                   cacheop, tiers, redis, probe, life, composite>>

\* The delay of the except clause of _evaluate_remote (lines 371-373).
Delay(retry_delay, exponential_backoff, attempt) ==
    IF exponential_backoff THEN retry_delay * (2 ^ attempt) ELSE retry_delay

\* await asyncio.sleep(delay), then the next iteration of the loop.
Sleep(t) ==
    /\ call[t].pc = "sleep"
    /\ call' = [call EXCEPT ![t] =
          [@ EXCEPT !.pc = "http",
                    !.attempt = @ + 1,
                    !.g_sleeps = Append(@, Delay(config.retry_delay,
                                                 config.exponential_backoff,
                                                 call[t].attempt))]]
    /\ UNCHANGED <<config, session, offline_mode, ready, context, store, lock,
                   now, metrics, ncalls,
                   g_written,
                   cacheop, tiers, redis, probe, life, composite>>

\* A variant that rebuilds the key without the context.
WriteBackKey_NoContext(c) == BuildCacheKey(c.flag_key, None)

\* The key _set_cache is given by evaluate_with_details (line 225).
WriteBackKey(c) == c.cache_key

\* await self._set_cache(cache_key, result.value): an exception of the
\* provider is swallowed.
CacheSet(t) ==
    /\ call[t].pc = "cache_set"
    /\ lock = 0
    /\ \E io \in IoOutcomes(config.storage),
          cleanup \in CleanupChoices(config.storage) :
        LET c == call[t]
            wrote == config.storage # "none" /\ io = "ok"
        IN /\ store' = IF wrote
                       THEN StoreAfterSet(config.storage, store, WriteBackKey(c),
                                          c.result.value, now, cleanup)
                       ELSE store
           /\ g_written' = IF wrote
                           THEN [key |-> WriteBackKey(c), value |-> c.result.value]
                           ELSE g_written
           /\ call' = [call EXCEPT ![t] =
                  [c EXCEPT !.pc = "finish",
                            !.g_set = IF wrote THEN "stored"
                                      ELSE IF config.storage = "none"
                                      THEN "no_cache" ELSE "io_error"]]
    /\ UNCHANGED <<config, session, offline_mode, ready, context, lock, now,
                   metrics, ncalls,
                   cacheop, tiers, redis, probe, life, composite>>

\* evaluate_with_details lines 227-234, which run without suspending.
Finish(t) ==
    /\ call[t].pc = "finish"
    /\ metrics' = RecordLatency(CountEvaluation(call[t], metrics),
                                call[t].start_time, now)
    /\ call' = [call EXCEPT ![t] =
          [@ EXCEPT !.pc = "done", !.outcome = "returned",
                    !.terminal = "remote-success",
                    !.g_events = Append(@, <<"on_evaluation", call[t].flag_key,
                                            call[t].result.value>>)]]
    /\ UNCHANGED <<config, session, offline_mode, ready, context, store, lock,
                   now, ncalls,
                   g_written,
                   cacheop, tiers, redis, probe, life, composite>>

\* The host takes the value the call returned.
Return(t) ==
    /\ call[t].pc = "done"
    /\ call' = [call EXCEPT ![t] = IdleCall]
    /\ UNCHANGED <<config, session, offline_mode, ready, context, store, lock,
                   now, metrics, ncalls,
                   g_written,
                   cacheop, tiers, redis, probe, life, composite>>

\* Time passes while the coroutines are suspended or the host is idle.
Tick ==
    /\ now < MaxTime
    /\ \A t \in Tasks : call[t].pc = "idle"
    /\ now' = now + 1
    /\ UNCHANGED <<config, session, offline_mode, ready, context, store, lock,
                   metrics, call, ncalls,
                   g_written,
                   cacheop, tiers, redis, probe, life, composite>>

Step(t) ==
    \/ WaitForReady(t)
    \/ \E f \in Flags, c \in Contexts \cup {None}, d \in CallerDefaults :
          EvaluateWithDetails(t, f, c, d)
    \/ CacheGet(t)
    \/ HttpAttempt(t)
    \/ Sleep(t)
    \/ CacheSet(t)
    \/ Finish(t)
    \/ Return(t)

\* The single-flag pipeline, the host awaiting each call in turn.
Next == \E t \in SerialTasks : Step(t)

Spec == Init /\ [][Next]_vars

\* The same pipeline with the default of three attempts, without a cache,
\* under each choice of retry_delay and exponential_backoff.
RetryDelays == {DefaultRetryDelay, 2}
BackoffConfigs ==
    [storage : {"none"}, mode : {"streaming"},
     retry_attempts : {DefaultRetryAttempts},
     offline_enabled : OfflineEnabledChoices,
     retry_delay : RetryDelays, exponential_backoff : BOOLEAN]

InitBackoff == config \in BackoffConfigs /\ Constructed

SpecBackoff == InitBackoff /\ [][Next]_vars

\* The same with the clock running between the calls.
NextTime == (\E t \in SerialTasks : Step(t)) \/ Tick

SpecTime == Init /\ [][NextTime]_vars

\* Time passes while a call is under way.
Elapse ==
    /\ now < MaxTime
    /\ \E t \in Tasks : call[t].pc \notin {"idle", "done", "lock_wait"}
    /\ now' = now + 1
    /\ UNCHANGED <<config, session, offline_mode, ready, context, store, lock,
                   metrics, call, ncalls, g_written,
                   cacheop, tiers, redis, probe, life, composite>>

\* The single-flag pipeline with calls that take time.
NextLatency == (\E t \in SerialTasks : Step(t)) \/ Elapse

SpecLatency == Init /\ [][NextLatency]_vars

\* ------------------------------------------------------------ evaluate_batch
\* The flag_keys lists in use: distinct keys, at most MaxBatch of them.
FlagOrder == <<"a", "b">>
FlagLists ==
    {ks \in UNION {[1..n -> Flags] : n \in 0..MaxBatch} :
        \A i, j \in 1..Len(ks) : i # j => ks[i] # ks[j]}

\* A body of a 200 response of POST /api/v1/evaluate/batch: its "flags".
BatchBodies == [Flags -> ServerValues]
BatchFailStatuses == {"404", "500", "timeout"}

\* A variant that gives a missed key without a default a None placeholder.
OfflineDefaults_Placeholder(results, misses) ==
    [f \in Flags |->
        IF f \in Range(misses)
        THEN (IF default_flags[f] # Absent THEN default_flags[f] ELSE None)
        ELSE results[f]]

\* The loops of lines 301-304 and 308-311: each missed key with a
\* configured default that is not None gets that default.
OfflineDefaults(results, misses) ==
    [f \in Flags |->
        IF f \in Range(misses) /\ default_flags[f] \notin {Absent, None}
        THEN default_flags[f] ELSE results[f]]

\* A variant that asks the server for every requested key.
BatchPayload_AllKeys(c) == c.flag_keys

\* The "flags" of the request _evaluate_batch_remote sends (line 281).
BatchPayload(c) == c.cache_misses

\* evaluate_batch lines 306-314.
BatchTail(c, m) ==
    [c |-> [c EXCEPT !.pc = "done", !.outcome = "returned",
                     !.terminal = "batch",
                     !.results = IF IsOffline(offline_mode, config.mode)
                                 THEN OfflineDefaults(c.results, c.cache_misses)
                                 ELSE c.results],
     m |-> [m EXCEPT !.evaluations = @ + Len(c.flag_keys)]]

\* evaluate_batch after its lookups (lines 276-281, and
\* _evaluate_batch_remote up to its request).
AfterBatchLookups(c, m) ==
    LET c1 == [c EXCEPT !.results = Update(c.results, c.cache_hits)]
    IN IF c1.cache_misses # <<>> /\ ~IsOffline(offline_mode, config.mode)
       THEN [c |-> [c1 EXCEPT !.pc = "b_http", !.g_payload = ContextNow(c)],
             m |-> CountRequest(m)]
       ELSE BatchTail(c1, m)

\* evaluate_batch up to its first await.
EvaluateBatch(t, flag_keys, ctx_arg) ==
    /\ call[t].pc = "idle"
    /\ ncalls < MaxCalls
    /\ ncalls' = ncalls + 1
    /\ LET c == [IdleCall EXCEPT !.op = "batch", !.flag_keys = flag_keys,
                                 !.i = 1,
                                 !.ctx = IF ctx_arg # None THEN ctx_arg
                                         ELSE context,
                                 !.ctx_shared = (ctx_arg = None /\ context # None),
                                 !.g_m0 = metrics]
           r == IF flag_keys = <<>> THEN AfterBatchLookups(c, metrics)
                ELSE [c |-> [c EXCEPT !.pc = "b_get"], m |-> metrics]
       IN /\ call' = [call EXCEPT ![t] = r.c]
          /\ metrics' = r.m
    /\ UNCHANGED <<config, session, offline_mode, ready, context, store, lock,
                   now, g_written,
                   cacheop, tiers, redis, probe, life, composite>>

\* One iteration of the lookup loop (lines 259-274).
BatchGet(t) ==
    /\ call[t].pc = "b_get"
    /\ lock = 0
    /\ \E io \in IoOutcomes(config.storage) :
        LET c == call[t]
            k == c.flag_keys[c.i]
            cache_key == BuildCacheKey(k, ContextNow(c))
            row == store[cache_key]
            obs == [held |-> IF config.storage # "none"
                             THEN ProviderGet(config.storage, row, now)
                             ELSE None,
                    io |-> io]
            c0 == [c EXCEPT !.g_lookup = Append(@, obs), !.g_keys[k] = cache_key]
            cached == GetFromCache(config.storage, io, row, now)
            c1 == IF IsHit(cached)
                  THEN [c0 EXCEPT !.cache_hits[k] = cached,
                                  !.g_events = Append(@, <<"on_cache_hit", k>>)]
                  ELSE [c0 EXCEPT !.cache_misses = Append(@, k),
                                  !.g_events = Append(@, <<"on_cache_miss", k>>)]
            m1 == IF IsHit(cached) THEN Bump(metrics, "cache_hits")
                  ELSE Bump(metrics, "cache_misses")
            r == IF c.i = Len(c.flag_keys) THEN AfterBatchLookups(c1, m1)
                 ELSE [c |-> [c1 EXCEPT !.i = @ + 1], m |-> m1]
        IN IF io = "ok" /\ GetBlocks(config.storage, row, now)
           THEN /\ lock' = t
                /\ call' = [call EXCEPT ![t] = [c0 EXCEPT !.pc = "lock_wait"]]
                /\ UNCHANGED metrics
           ELSE /\ call' = [call EXCEPT ![t] = r.c]
                /\ metrics' = r.m
                /\ UNCHANGED lock
    /\ UNCHANGED <<config, session, offline_mode, ready, context, store, now,
                   ncalls, g_written,
                   cacheop, tiers, redis, probe, life, composite>>

\* The request of _evaluate_batch_remote and what follows its response:
\* on 200 the loop over remote_results, else the except clause
\* (lines 293-304) and the tail.
BatchHttp(t) ==
    /\ call[t].pc = "b_http"
    /\ \E status \in (IF session = "open" THEN BatchFailStatuses \cup {"200"}
                      ELSE {"no_session"}),
          body \in BatchBodies :
        LET c == call[t]
            c0 == [c EXCEPT !.g_batchreq =
                      Append(@, [status |-> status, flags |-> BatchPayload(c)])]
        IN IF status = "200"
           THEN LET c1 == [c0 EXCEPT !.remote_results = body,
                                     !.pending = SelectSeq(FlagOrder,
                                         LAMBDA f : body[f] # Absent)]
                IN IF c1.pending = <<>>
                   THEN LET r == BatchTail(c1, metrics)
                        IN call' = [call EXCEPT ![t] = r.c] /\ metrics' = r.m
                   ELSE /\ call' = [call EXCEPT ![t] = [c1 EXCEPT !.pc = "b_set"]]
                        /\ UNCHANGED metrics
           ELSE /\ body = EmptyMap
                /\ LET c1 == [c0 EXCEPT
                           !.g_events = Append(@, <<"on_error", status>>),
                           !.results = OfflineDefaults(c.results, c.cache_misses)]
                       r == BatchTail(c1, CountError(metrics))
                   IN call' = [call EXCEPT ![t] = r.c] /\ metrics' = r.m
    /\ UNCHANGED <<config, session, offline_mode, ready, context, store, lock,
                   now, ncalls, g_written,
                   cacheop, tiers, redis, probe, life, composite>>

\* One iteration of the loop over remote_results (lines 284-289), and
\* after the last one lines 291 and 306-314.
BatchSet(t) ==
    /\ call[t].pc = "b_set"
    /\ lock = 0
    /\ \E io \in IoOutcomes(config.storage),
          cleanup \in CleanupChoices(config.storage) :
        LET c == call[t]
            k == Head(c.pending)
            key == BuildCacheKey(k, ContextNow(c))
            wrote == config.storage # "none" /\ io = "ok"
            c1 == [c EXCEPT !.pending = Tail(@),
                            !.g_setkeys[k] = IF wrote THEN key ELSE @,
                            !.g_events = Append(@, <<"on_evaluation", k,
                                                   c.remote_results[k]>>)]
            r == IF c1.pending = <<>>
                 THEN BatchTail([c1 EXCEPT !.results =
                                    Update(c.results, c.remote_results)], metrics)
                 ELSE [c |-> c1, m |-> metrics]
        IN /\ store' = IF wrote
                       THEN StoreAfterSet(config.storage, store, key,
                                          c.remote_results[k], now, cleanup)
                       ELSE store
           /\ g_written' = IF wrote
                           THEN [key |-> key, value |-> c.remote_results[k]]
                           ELSE g_written
           /\ call' = [call EXCEPT ![t] = r.c]
           /\ metrics' = r.m
    /\ UNCHANGED <<config, session, offline_mode, ready, context, lock, now,
                   ncalls,
                   cacheop, tiers, redis, probe, life, composite>>

StepBatch(t) ==
    \/ WaitForReady(t)
    \/ \E ks \in FlagLists, c \in Contexts \cup {None} : EvaluateBatch(t, ks, c)
    \/ BatchGet(t)
    \/ BatchHttp(t)
    \/ BatchSet(t)
    \/ Return(t)

\* The batch pipeline, the host awaiting each call in turn.
NextBatch == \E t \in SerialTasks : StepBatch(t)

SpecBatch == InitBatch /\ [][NextBatch]_vars

\* ------------------------------------------------------------ providers, used directly
\* The keys the host uses on the provider.
ProbeKeys == {BuildCacheKey(f, None) : f \in Flags}
ProviderStorages == {"memory", "disk", "redis"}
SmallSize == 1                       \* a cache.max_size that overflows
ProviderConfigs ==
    [storage : ProviderStorages, mode : {"streaming"},
     retry_attempts : {DefaultRetryAttempts},
     offline_enabled : OfflineEnabledChoices, max_size : {SmallSize}]

InitCache == config \in ProviderConfigs /\ Constructed

\* Whether a read of the provider at time t finds the row.
Live(storage, row, t) == row.present /\ ~RowExpired(storage, row, t)

\* TTLCache.expire: the items past their expiry are removed.
MemoryExpire(st, t) ==
    [k \in DOMAIN st |-> IF Live("memory", st[k], t) THEN st[k] ELSE NoRow]

StoredKeys(st) == {k \in DOMAIN st : st[k].present}

\* A variant that never discards an item.
Victims_None(st, key, max_size) == {{}}

\* TTLCache.__setitem__ on a key it does not hold: items are discarded
\* while the cache is full. Which items go depends on the order of use,
\* which the model leaves open: any set of the right size.
Victims(st, key, max_size) ==
    IF st[key].present \/ Cardinality(StoredKeys(st)) < max_size
    THEN {{}}
    ELSE {vs \in SUBSET StoredKeys(st) :
            Cardinality(StoredKeys(st)) - Cardinality(vs) = max_size - 1}

\* The operation the host has just made, and the entries it has put.
Did(op, key, ret, puts) ==
    [op |-> op, key |-> key, ret |-> ret, at |-> now, g_puts |-> puts,
     g_evicted |-> {}, g_tiers |-> <<>>]

\* await provider.set(key, value, ttl)
PSet(key, value, ttl) ==
    /\ lock = 0
    /\ \E cleanup \in CleanupChoices(config.storage) :
         IF config.storage = "memory"
         THEN \E vs \in Victims(MemoryExpire(store, now), key, config.max_size) :
                /\ store' = [k \in DOMAIN store |->
                                IF k = key
                                THEN ProviderSetTtl("memory", value, ttl, now)
                                ELSE IF k \in vs THEN NoRow
                                ELSE MemoryExpire(store, now)[k]]
                /\ cacheop' = [Did("set", key, None,
                       [k \in CacheKeys |->
                          IF k = key
                          THEN [live |-> TRUE, at |-> now, ttl |-> ttl,
                                value |-> value]
                          ELSE IF k \in vs THEN NoPut
                          ELSE cacheop.g_puts[k]])
                               EXCEPT !.g_evicted = vs]
         ELSE /\ store' = IF cleanup
                          THEN CleanupExpired(
                                 [store EXCEPT ![key] =
                                    ProviderSetTtl(config.storage, value, ttl, now)],
                                 now)
                          ELSE [store EXCEPT ![key] =
                                  ProviderSetTtl(config.storage, value, ttl, now)]
              /\ cacheop' = Did("set", key, None,
                     [cacheop.g_puts EXCEPT ![key] =
                        [live |-> TRUE, at |-> now, ttl |-> ttl, value |-> value]])
    /\ UNCHANGED <<config, session, offline_mode, ready, context, lock, now,
                   metrics, call, ncalls, g_written, tiers, redis, probe, life, composite>>

\* await provider.get(key). DiskCache.get on an expired row waits for the
\* lock it holds: the call does not return.
PGet(key) ==
    /\ lock = 0
    /\ IF GetBlocks(config.storage, store[key], now)
       THEN /\ lock' = 1
            /\ cacheop' = Did("get", key, "<blocked>", cacheop.g_puts)
       ELSE /\ cacheop' = Did("get", key,
                               ProviderGet(config.storage, store[key], now),
                               cacheop.g_puts)
            /\ UNCHANGED lock
    /\ UNCHANGED <<config, session, offline_mode, ready, context, store, now,
                   metrics, call, ncalls, g_written, tiers, redis, probe, life, composite>>

\* A variant whose DELETE has no WHERE clause.
AfterDelete_Every(st, key) == [k \in DOMAIN st |-> NoRow]

\* The rows after delete(key): cache.pop(key, None), DELETE ... WHERE
\* key = ?, redis.delete(key).
AfterDelete(st, key) == [st EXCEPT ![key] = NoRow]

\* The rows after clear().
AfterClear(st) == [k \in DOMAIN st |-> NoRow]

\* await provider.delete(key)
PDelete(key) ==
    /\ lock = 0
    /\ store' = AfterDelete(store, key)
    /\ cacheop' = Did("delete", key, None,
                      [cacheop.g_puts EXCEPT ![key] = NoPut])
    /\ UNCHANGED <<config, session, offline_mode, ready, context, lock, now,
                   metrics, call, ncalls, g_written, tiers, redis, probe, life, composite>>

\* await provider.clear()
PClear ==
    /\ lock = 0
    /\ store' = AfterClear(store)
    /\ cacheop' = Did("clear", <<>>, None, [k \in CacheKeys |-> NoPut])
    /\ UNCHANGED <<config, session, offline_mode, ready, context, lock, now,
                   metrics, call, ncalls, g_written, tiers, redis, probe, life, composite>>

\* What provider.exists(key) returns when it returns: MemoryCache tests
\* `key in self.cache`, DiskCache reads the row and tests its expiry,
\* RedisCache asks the server.
ProviderExists(storage, row, t) ==
    row.present /\ ~RowExpired(storage, row, t)

\* await provider.exists(key). DiskCache.exists on an expired row waits,
\* like DiskCache.get, for the lock it holds.
PExists(key) ==
    /\ lock = 0
    /\ IF GetBlocks(config.storage, store[key], now)
       THEN /\ lock' = 1
            /\ cacheop' = Did("exists", key, FALSE, cacheop.g_puts)
       ELSE /\ cacheop' = Did("exists", key,
                               ProviderExists(config.storage, store[key], now),
                               cacheop.g_puts)
            /\ UNCHANGED lock
    /\ UNCHANGED <<config, session, offline_mode, ready, context, store, now,
                   metrics, call, ncalls, g_written, tiers, redis, probe, life, composite>>

\* The key a provider stores a row under, f"{key_prefix}{key}", and the
\* key it lists for it, key[len(prefix):]. store is indexed by the key
\* given; the row of key k is the one stored under Prefixed(k).
KeyPrefix == "flexflag:"
Prefixed(key) == <<KeyPrefix>> \o key
Strip(prefixed_key) == SubSeq(prefixed_key, 2, Len(prefixed_key))

\* Whether size() and keys() count the row: DiskCache selects the rows
\* WHERE expires_at > now; TTLCache and Redis list their live items.
Listed(storage, row, t) ==
    IF storage = "disk" THEN row.present /\ row.expires_at > t
    ELSE Live(storage, row, t)

\* What provider.keys() returns.
ProviderKeys(storage, st, t) ==
    {Strip(pk) : pk \in {Prefixed(k) : k \in {x \in DOMAIN st :
                                                Listed(storage, st[x], t)}}}

\* What provider.size() returns.
ProviderSize(storage, st, t) ==
    Cardinality({k \in DOMAIN st : Listed(storage, st[k], t)})

\* await provider.keys()
PKeys ==
    /\ lock = 0
    /\ cacheop' = Did("keys", <<>>, ProviderKeys(config.storage, store, now),
                      cacheop.g_puts)
    /\ UNCHANGED <<config, session, offline_mode, ready, context, store, lock,
                   now, metrics, call, ncalls, g_written, tiers, redis, probe, life, composite>>

\* await provider.size()
PSize ==
    /\ lock = 0
    /\ cacheop' = Did("size", <<>>, ProviderSize(config.storage, store, now),
                      cacheop.g_puts)
    /\ UNCHANGED <<config, session, offline_mode, ready, context, store, lock,
                   now, metrics, call, ncalls, g_written, tiers, redis, probe, life, composite>>

\* A provider used directly by the host, one operation after another, the
\* clock running in between.
NextCache ==
    \/ \E k \in ProbeKeys, v \in FlagValues, ttl \in TTLs : PSet(k, v, ttl)
    \/ \E k \in ProbeKeys : PGet(k)
    \/ \E k \in ProbeKeys : PDelete(k)
    \/ PClear
    \/ \E k \in ProbeKeys : PExists(k)
    \/ PKeys
    \/ PSize
    \/ Tick

SpecCache == InitCache /\ [][NextCache]_vars

\* ------------------------------------------------------------ TieredCache
TieredConfigs ==
    [storage : {"tiered"}, mode : {"streaming"},
     retry_attempts : {DefaultRetryAttempts},
     offline_enabled : OfflineEnabledChoices, tier_storages : TierOrders]

InitTiered == config \in TieredConfigs /\ Constructed

TierIndexes == 1..Len(TierStorages)

\* The keys the host uses on the TieredCache.
TierKeys == {BuildCacheKey("a", None)}

\* The rows of a tier after its set(key, value, ttl).
StoreAfterSetTtl(storage, st, key, value, ttl, t, cleanup) ==
    LET st1 == [st EXCEPT ![key] = ProviderSetTtl(storage, value, ttl, t)]
    IN IF cleanup THEN CleanupExpired(st1, t) ELSE st1

\* The tiers that fail a write: none, or the disk tier.
WriteFailures(order) == {{}, {i \in TierIndexes : order[i] = "disk"}}

\* What tier i returns to TieredCache.get, and whether its get blocks.
TierValue(order, ts, i, key, t) == ProviderGet(order[i], ts[i][key], t)
TierBlocks(order, ts, i, key, t) == GetBlocks(order[i], ts[i][key], t)

\* The first tier of the loop of TieredCache.get that returns a value, and
\* the first whose get does not return; past the last tier when none.
FirstIn(S) ==
    IF S = {} THEN Len(TierStorages) + 1
    ELSE CHOOSE i \in S : \A j \in S : i <= j
FirstHit(order, ts, key, t) ==
    FirstIn({i \in TierIndexes : TierValue(order, ts, i, key, t) # None})
FirstBlock(order, ts, key, t) ==
    FirstIn({i \in TierIndexes : TierBlocks(order, ts, i, key, t)})

\* for j in range(i): the tiers above the hit.
BackfillRange(i) == {j \in TierIndexes : j < i}

\* await tiered.set(key, value, ttl): every tier is set; gather(...,
\* return_exceptions=True) keeps a tier's failure from the caller.
TSet(key, value, ttl) ==
    /\ lock = 0
    /\ \E cleanup \in BOOLEAN, failed \in WriteFailures(config.tier_storages) :
         /\ tiers' = [i \in TierIndexes |->
                        IF i \in failed THEN tiers[i]
                        ELSE StoreAfterSetTtl(config.tier_storages[i], tiers[i],
                               key, value, ttl, now,
                               cleanup /\ config.tier_storages[i] = "disk")]
         /\ cacheop' = [Did("tset", key, None, cacheop.g_puts)
                           EXCEPT !.g_tiers = tiers, !.g_evicted = failed]
    /\ UNCHANGED <<config, session, offline_mode, ready, context, store, lock,
                   now, metrics, call, ncalls, g_written, redis, probe, life, composite>>

\* await tier.set(key, value) by the host, on one tier.
DSet(i, key, value) ==
    /\ lock = 0
    /\ \E cleanup \in CleanupChoices(config.tier_storages[i]) :
         tiers' = [tiers EXCEPT ![i] =
                     StoreAfterSetTtl(config.tier_storages[i], tiers[i], key,
                                      value, NoTtl, now, cleanup)]
    /\ cacheop' = [Did("dset", key, None, cacheop.g_puts) EXCEPT !.g_tiers = tiers]
    /\ UNCHANGED <<config, session, offline_mode, ready, context, store, lock,
                   now, metrics, call, ncalls, g_written, redis, probe, life, composite>>

\* await tiered.get(key): the tiers are read in order; the first value
\* found is written to the tiers above and returned. A tier whose get does
\* not return stops the loop there; a failed write raises out of get.
TGet(key) ==
    /\ lock = 0
    /\ LET order == config.tier_storages
           hit == FirstHit(order, tiers, key, now)
           blk == FirstBlock(order, tiers, key, now)
       IN IF blk < hit
          THEN /\ lock' = 1
               /\ cacheop' = [Did("tget", key, "<blocked>", cacheop.g_puts)
                                 EXCEPT !.g_tiers = tiers]
               /\ UNCHANGED tiers
          ELSE IF hit > Len(order)
          THEN /\ cacheop' = [Did("tget", key, None, cacheop.g_puts)
                                 EXCEPT !.g_tiers = tiers]
               /\ UNCHANGED <<tiers, lock, redis, probe, life>>
          ELSE \E cleanup \in BOOLEAN,
                  failed \in {f \cap BackfillRange(hit) : f \in WriteFailures(order)} :
                 LET value == TierValue(order, tiers, hit, key, now)
                     firstfail == FirstIn(failed)
                 IN /\ tiers' = [i \in TierIndexes |->
                                   IF i \in BackfillRange(hit) /\ i < firstfail
                                   THEN StoreAfterSetTtl(order[i], tiers[i], key,
                                          value, NoTtl, now,
                                          cleanup /\ order[i] = "disk")
                                   ELSE tiers[i]]
                    /\ cacheop' = [Did("tget", key,
                                       IF failed = {} THEN value ELSE "<raised>",
                                       cacheop.g_puts)
                                     EXCEPT !.g_tiers = tiers]
                    /\ UNCHANGED lock
    /\ UNCHANGED <<config, session, offline_mode, ready, context, store, now,
                   metrics, call, ncalls, g_written, redis, probe, life, composite>>

\* await tiered.delete(key): every tier's delete, gathered with
\* return_exceptions=True; a tier that fails keeps its rows.
TDelete(key) ==
    /\ lock = 0
    /\ \E failed \in WriteFailures(config.tier_storages) :
         /\ tiers' = [i \in TierIndexes |->
                        IF i \in failed THEN tiers[i]
                        ELSE AfterDelete(tiers[i], key)]
         /\ cacheop' = [Did("tdelete", key, None, cacheop.g_puts)
                           EXCEPT !.g_tiers = tiers, !.g_evicted = failed]
    /\ UNCHANGED <<config, session, offline_mode, ready, context, store, lock,
                   now, metrics, call, ncalls, g_written, redis, probe, life, composite>>

\* await tiered.clear(): every tier's clear, gathered likewise.
TClear ==
    /\ lock = 0
    /\ \E failed \in WriteFailures(config.tier_storages) :
         /\ tiers' = [i \in TierIndexes |->
                        IF i \in failed THEN tiers[i] ELSE AfterClear(tiers[i])]
         /\ cacheop' = [Did("tclear", <<>>, None, cacheop.g_puts)
                           EXCEPT !.g_tiers = tiers, !.g_evicted = failed]
    /\ UNCHANGED <<config, session, offline_mode, ready, context, store, lock,
                   now, metrics, call, ncalls, g_written, redis, probe, life, composite>>

\* A TieredCache and its tiers used by the host, the clock running.
NextTiered ==
    \/ \E k \in TierKeys, v \in Values, ttl \in TTLs : TSet(k, v, ttl)
    \/ \E i \in TierIndexes, k \in TierKeys, v \in Values : DSet(i, k, v)
    \/ \E k \in TierKeys : TGet(k)
    \/ \E k \in TierKeys : TDelete(k)
    \/ TClear
    \/ Tick

SpecTiered == InitTiered /\ [][NextTiered]_vars

\* Every provider, the TieredCache among them, used directly by the host.
InitProviders == config \in ProviderConfigs \cup TieredConfigs /\ Constructed

NextProviders ==
    \/ config.storage # "tiered" /\ NextCache
    \/ config.storage = "tiered" /\ NextTiered

SpecProviders == InitProviders /\ [][NextProviders]_vars

\* Both pipelines, the host awaiting each call in turn.
NextMixed == \E t \in SerialTasks : Step(t) \/ StepBatch(t)

SpecMixed == Init /\ [][NextMixed]_vars

\* Two coroutines of the host, each with one call (single or batch), which
\* interleave at their suspension points.
StepConc(t) ==
    \/ WaitForReady(t)
    \/ \E f \in Flags : EvaluateWithDetails(t, f, None, None)
    \/ CacheGet(t)
    \/ HttpAttempt(t)
    \/ Sleep(t)
    \/ CacheSet(t)
    \/ Finish(t)
    \/ \E ks \in FlagLists : EvaluateBatch(t, ks, None)
    \/ BatchGet(t)
    \/ BatchHttp(t)
    \/ BatchSet(t)

NextConc == \E t \in Tasks : StepConc(t)

\* The configurations of the concurrent runs.
ConcConfigs ==
    {cf \in SingleConfigs : cf.storage = "memory"}

InitConc == config \in ConcConfigs /\ Constructed

SpecConc == InitConc /\ [][NextConc]_vars

\* ====================================================================
\* Properties of the single-flag pipeline
\* ====================================================================
Reasons == {"TARGETING_MATCH", "DEFAULT", "CACHED", "OFFLINE"}
Singles == {t \in Tasks : call[t].op = "single"}
Statuses(t) == {call[t].g_reqlog[i] : i \in 1..Len(call[t].g_reqlog)}
EventNames(t) == {call[t].g_events[i][1] : i \in 1..Len(call[t].g_events)}
\* What the lookup of the call found: the value the provider held for the
\* key (None when it held no live value) and whether the read failed.
Lookup(t) == call[t].g_lookup[1]
LookedUp(t) == Len(call[t].g_lookup) >= 1
\* What the provider now returns for the key the call looked up.
HeldNow(t) == ProviderGet(config.storage, store[call[t].cache_key], now)

\* C1: evaluate_with_details never raises because of a network failure
\* (failed status, timeout, no session) or a cache failure on get or set:
\* no call ends raised, and a call that has ended has returned a result
\* with one of the reasons of the pipeline.
C1_NeverRaises ==
    \A t \in Singles :
        /\ call[t].outcome # "raised"
        /\ call[t].pc = "done" =>
              /\ call[t].outcome = "returned"
              /\ call[t].result.reason \in Reasons

\* C1, a case: the cache read failed, every request failed, and the call
\* returned.
C1_Witness ==
    \E t \in Singles :
        /\ call[t].pc = "done"
        /\ Lookup(t).io = "io_error"
        /\ Len(call[t].g_reqlog) = 2
        /\ Statuses(t) = {"timeout", "500"}
        /\ call[t].outcome = "returned"

\* C2: every evaluation finishes. Stated on a state: a call that is under
\* way can take its next step (nothing it waits for is withheld forever).
C2_EveryEvaluationFinishes ==
    \A t \in Singles :
        call[t].pc \notin {"idle", "done"} => ENABLED Step(t)

\* C3: with no cache entry for the flag, the client online, every remote
\* attempt failed and an offline default d configured, the call returns d
\* with reason OFFLINE and adds exactly 1 to errors.
C3_FallbackChain ==
    \A t \in Singles :
        ( /\ call[t].pc = "done"
          /\ Lookup(t).held = None
          /\ call[t].terminal # "offline-result"
          /\ Statuses(t) \cap {"200", "404"} = {}
          /\ default_flags[call[t].flag_key] # Absent )
        => /\ call[t].result.value = default_flags[call[t].flag_key]
           /\ call[t].result.reason = "OFFLINE"
           /\ metrics.errors = call[t].g_m0.errors + 1

\* C3, a case: wait_for_ready was never called (no session), the caller's
\* default differs from the configured one.
C3_Witness ==
    \E t \in Singles :
        /\ call[t].pc = "done"
        /\ session = "none"
        /\ Lookup(t).held = None
        /\ call[t].terminal = "offline-fallback"
        /\ call[t].flag_key = "a"
        /\ call[t].default_value = "v2"
        /\ call[t].result.value = "v1"

\* C4 as stated: whenever the cache holds a live value for the key, the
\* call returns it with reason CACHED and makes no network request.
C4_CacheFirst_Original ==
    \A t \in Singles :
        (LookedUp(t) /\ Lookup(t).held # None)
        => /\ call[t].pc = "done"
           /\ call[t].g_reqlog = <<>>
           /\ metrics.network_requests = call[t].g_m0.network_requests
           /\ call[t].result = CachedResult(Lookup(t).held)

\* C4 amended: the same, provided the read of the cache does not fail.
C4_CacheFirst ==
    \A t \in Singles :
        (LookedUp(t) /\ Lookup(t).held # None /\ Lookup(t).io = "ok")
        => /\ call[t].pc = "done"
           /\ call[t].g_reqlog = <<>>
           /\ metrics.network_requests = call[t].g_m0.network_requests
           /\ call[t].result = CachedResult(Lookup(t).held)

\* C4, a case: the client is in offline mode, the flag has an offline
\* default, and the cached value, which differs from it, is returned.
C4_Witness ==
    \E t \in Singles :
        /\ call[t].pc = "done"
        /\ offline_mode
        /\ Lookup(t).io = "ok"
        /\ default_flags[call[t].flag_key] # Absent
        /\ Lookup(t).held \notin {None, default_flags[call[t].flag_key]}
        /\ call[t].result.value = Lookup(t).held

\* The call's remote fetch succeeded (status 200) and the write-back step
\* is over.
FetchedAndWritten(t) ==
    /\ call[t].pc \in {"finish", "done"}
    /\ "200" \in Statuses(t)

\* C5 as stated, with the cache enabled and every cache operation
\* succeeding: after a successful remote fetch of v the cache holds v under
\* the key of the lookup before the call returns and before on_evaluation
\* fires, and the next evaluation under that key is a cache hit returning v
\* with no network request.
C5_WriteBack_Original ==
    /\ \A t \in Singles :
          (FetchedAndWritten(t) /\ call[t].g_set = "stored")
          => /\ store[call[t].cache_key].present
             /\ HeldNow(t) = call[t].result.value
             /\ call[t].pc = "finish" => "on_evaluation" \notin EventNames(t)
    /\ \A t \in Singles :
          ( /\ call[t].pc = "done"
            /\ call[t].terminal # "remote-success"
            /\ call[t].cache_key = g_written.key
            /\ Lookup(t).io = "ok" )
          => /\ call[t].result = CachedResult(g_written.value)
             /\ call[t].g_reqlog = <<>>

\* C5 amended: the same when the cache is enabled, the write does not fail
\* and v is not None; and the next evaluation under that key whose read
\* does not fail is a cache hit returning v with no network request.
C5_WriteBack ==
    /\ \A t \in Singles :
          ( /\ FetchedAndWritten(t)
            /\ call[t].g_set = "stored"
            /\ call[t].result.value # None )
          => /\ store[call[t].cache_key].present
             /\ HeldNow(t) = call[t].result.value
             /\ g_written = [key |-> call[t].cache_key,
                             value |-> call[t].result.value]
             /\ call[t].pc = "finish" => "on_evaluation" \notin EventNames(t)
    /\ \A t \in Singles :
          ( /\ call[t].pc = "done"
            /\ call[t].terminal # "remote-success"
            /\ call[t].cache_key = g_written.key
            /\ g_written.value # None
            /\ Lookup(t).io = "ok" )
          => /\ call[t].result = CachedResult(g_written.value)
             /\ call[t].g_reqlog = <<>>

\* C5, a case: an evaluation with a context is answered from the row the
\* previous evaluation of that flag and context wrote back.
C5_Witness ==
    \E t \in Singles :
        /\ call[t].pc = "done"
        /\ call[t].ctx # None
        /\ call[t].cache_key = g_written.key
        /\ call[t].terminal = "cached-hit"
        /\ call[t].result.value = "v1"

\* C6: with retry_attempts = N >= 1 and every attempt a retryable failure,
\* exactly N attempts are made before the fallback: never an (N+1)th
\* attempt, and no fallback before the Nth.
Retryable == {"401", "500", "timeout"}
C6_RetryBudget ==
    \A t \in Singles :
        (config.retry_attempts >= 1 /\ Statuses(t) \subseteq Retryable)
        => /\ Len(call[t].g_reqlog) <= config.retry_attempts
           /\ (call[t].pc = "done" /\ call[t].g_reqlog # <<>>) =>
                 /\ Len(call[t].g_reqlog) = config.retry_attempts
                 /\ call[t].terminal = "offline-fallback"
           /\ call[t].terminal = "offline-fallback" =>
                 Len(call[t].g_reqlog) = config.retry_attempts

\* C6, a case: MaxRetry attempts, a failed status and a timeout among them.
C6_Witness ==
    \E t \in Singles :
        /\ call[t].pc = "done"
        /\ config.retry_attempts = MaxRetry
        /\ Len(call[t].g_reqlog) = MaxRetry
        /\ Statuses(t) = {"500", "timeout"}
        /\ call[t].terminal = "offline-fallback"

\* C7: a 401 is terminal: it is the last attempt of its evaluation, which
\* goes to the offline path at once.
C7_UnauthorizedNotRetried ==
    \A t \in Singles :
        \A i \in 1..Len(call[t].g_reqlog) :
            call[t].g_reqlog[i] = "401"
            => /\ i = Len(call[t].g_reqlog)
               /\ call[t].pc = "done"
               /\ call[t].terminal = "offline-fallback"

\* C8: a 404 ends the fetch: no attempt and no sleep follow it, the call
\* returns the caller's default_value with reason DEFAULT, and neither the
\* errors counter nor on_error is touched.
C8_NotFound ==
    \A t \in Singles :
        \A i \in 1..Len(call[t].g_reqlog) :
            call[t].g_reqlog[i] = "404"
            => /\ i = Len(call[t].g_reqlog)
               /\ call[t].pc \in {"cache_set", "finish", "done"}
               /\ call[t].result.value = call[t].default_value
               /\ call[t].result.reason = "DEFAULT"
               /\ metrics.errors = call[t].g_m0.errors
               /\ "on_error" \notin EventNames(t)

\* C8, a case: the 404 answers the first attempt with attempts to spare,
\* and the call has returned the caller's default.
C8_Witness ==
    \E t \in Singles :
        /\ call[t].pc = "done"
        /\ config.retry_attempts = MaxRetry
        /\ call[t].g_reqlog = <<"404">>
        /\ call[t].default_value = "v2"
        /\ call[t].result.value = "v2"
        /\ call[t].terminal = "remote-success"

\* ====================================================================
\* Properties of the batch pipeline
\* ====================================================================
Batches == {t \in Tasks : call[t].op = "batch"}
Missed(t) == Range(call[t].cache_misses)
\* The requests of the call that went out through a session.
SentBatch(t) ==
    SelectSeq(call[t].g_batchreq, LAMBDA r : r.status # "no_session")

\* C9: when the client is online and the remote batch call fails, the
\* mapping returned holds exactly the cache hits and, for every missed key
\* with a configured offline default, that default; a missed key without
\* one is not in the mapping; the call returns.
C9_BatchPartialFailure ==
    \A t \in Batches :
        ( /\ call[t].pc = "done"
          /\ call[t].g_batchreq # <<>>
          /\ call[t].g_batchreq[1].status # "200" )
        => /\ call[t].outcome = "returned"
           /\ \A f \in Flags :
                call[t].results[f] =
                    IF f \in Missed(t) THEN default_flags[f]
                    ELSE call[t].cache_hits[f]
           /\ KeysOf(call[t].cache_hits) \cap Missed(t) = {}
           /\ KeysOf(call[t].cache_hits) \cup Missed(t) = Range(call[t].flag_keys)

\* C9, a case: "a" and "b" both miss, the request times out, only "a" has
\* an offline default: the mapping is {"a": default}.
C9_Witness ==
    \E t \in Batches :
        /\ call[t].pc = "done"
        /\ call[t].flag_keys = <<"a", "b">>
        /\ call[t].cache_misses = <<"a", "b">>
        /\ call[t].g_batchreq # <<>>
        /\ call[t].g_batchreq[1].status = "timeout"
        /\ call[t].results = [f \in Flags |-> IF f = "a" THEN "v1" ELSE Absent]

\* C10: a call of evaluate_batch makes at most one remote request: exactly
\* one, carrying exactly the missed keys, when the client has a session, is
\* online and a key missed; none when every key hit or the client is
\* offline, and then the missed keys get their offline defaults.
C10_OneBatchRequest ==
    \A t \in Batches :
        /\ Len(call[t].g_batchreq) <= 1
        /\ metrics.network_requests <= call[t].g_m0.network_requests + 1
        /\ \A i \in 1..Len(call[t].g_batchreq) :
              /\ call[t].g_batchreq[i].flags = call[t].cache_misses
              /\ Range(call[t].g_batchreq[i].flags) \cap KeysOf(call[t].cache_hits) = {}
        /\ ( /\ call[t].pc \in {"b_set", "done"}
             /\ session = "open"
             /\ ~IsOffline(offline_mode, config.mode)
             /\ call[t].cache_misses # <<>> )
           => Len(SentBatch(t)) = 1
        /\ ( /\ call[t].pc = "done"
             /\ (IsOffline(offline_mode, config.mode) \/ call[t].cache_misses = <<>>) )
           => /\ call[t].g_batchreq = <<>>
              /\ metrics.network_requests = call[t].g_m0.network_requests
              /\ \A f \in Missed(t) : call[t].results[f] = default_flags[f]

\* C10, a case: one key hit, the other missed, and the one request carried
\* the missed key alone.
C10_Witness ==
    \E t \in Batches :
        /\ call[t].pc = "done"
        /\ KeysOf(call[t].cache_hits) = {"a"}
        /\ call[t].cache_misses = <<"b">>
        /\ Len(SentBatch(t)) = 1
        /\ SentBatch(t)[1].flags = <<"b">>

\* ====================================================================
\* Properties of the metrics
\* ====================================================================
\* C11: every single evaluation adds 1 to evaluations, whichever terminal
\* state it reached, and adds 1 to cache_hits exactly when it was a cache
\* hit. With the calls made one after another this gives evaluations = N
\* and cache_hits = H after N evaluations of which H were hits.
C11_EveryEvaluationCounted ==
    \A t \in Singles :
        call[t].pc = "done"
        => /\ metrics.evaluations = call[t].g_m0.evaluations + 1
           /\ metrics.cache_hits = call[t].g_m0.cache_hits
                 + (IF call[t].terminal = "cached-hit" THEN 1 ELSE 0)
           /\ metrics.evaluations = ncalls

\* C12: after any sequence of evaluations that record a latency sample,
\* average_latency_ms is the arithmetic mean of the recorded samples (the
\* sample itself after the first one).
C12_AverageIsMean ==
    metrics.g_count > 0
    => metrics.average_latency_ms.num * metrics.g_count
         = metrics.g_sum * metrics.average_latency_ms.den

\* The call reached the remote fetch: it got past the offline test after a
\* miss (single), or it called the batch endpoint (batch).
ReachedRemote(t) ==
    \/ call[t].op = "single" /\ call[t].pc \in {"http", "sleep", "cache_set", "finish"}
    \/ call[t].op = "single" /\ call[t].pc = "done"
          /\ call[t].terminal \in {"remote-success", "offline-fallback"}
    \/ call[t].op = "batch" /\ call[t].pc \in {"b_http", "b_set"}
    \/ call[t].op = "batch" /\ call[t].pc = "done" /\ call[t].g_batchreq # <<>>

\* C13: a call adds exactly 1 to network_requests once it has reached the
\* remote fetch, however many attempts (single) or keys (batch) it takes,
\* and 0 as long as it has not: a call answered from the cache or resolved
\* in offline mode adds 0.
C13_OnePerRemoteCall ==
    \A t \in Tasks :
        call[t].pc # "idle"
        => metrics.network_requests =
              call[t].g_m0.network_requests + (IF ReachedRemote(t) THEN 1 ELSE 0)

\* C13, a case: a batch call that carried two keys has added 1, and the
\* single evaluation after it has made MaxRetry attempts and added 1.
C13_Witness ==
    \E t \in Singles :
        /\ call[t].pc = "done"
        /\ Len(call[t].g_reqlog) = MaxRetry
        /\ call[t].g_m0.network_requests = 1
        /\ call[t].g_m0.cache_misses = 2
        /\ metrics.network_requests = 2

\* The call took the fallback branch because of a failure: the except
\* clause of evaluate_with_details, or that of evaluate_batch.
TookFallback(t) ==
    \/ call[t].op = "single" /\ call[t].terminal = "offline-fallback"
    \/ /\ call[t].op = "batch"
       /\ call[t].pc = "done"
       /\ call[t].g_batchreq # <<>>
       /\ call[t].g_batchreq[1].status # "200"

\* C14: a call adds exactly 1 to errors when it took the fallback branch
\* because of a failure, and 0 otherwise: hits, remote successes, not-found
\* results and misses resolved in offline mode leave errors alone.
C14_ErrorsCountFallbacks ==
    \A t \in Tasks :
        call[t].pc # "idle"
        => metrics.errors =
              call[t].g_m0.errors + (IF TookFallback(t) THEN 1 ELSE 0)

\* C14, a case: two evaluations in a row fell back after failed attempts,
\* the second one after a failed read of the cache as well: errors is 2.
C14_Witness ==
    \E t \in Singles :
        /\ call[t].pc = "done"
        /\ call[t].terminal = "offline-fallback"
        /\ Lookup(t).io = "io_error"
        /\ call[t].g_m0.errors = 1
        /\ metrics.errors = 2

\* What a call adds to each counter when it runs alone, from its own
\* outcome so far.
Delta(c) ==
    IF c.op = "single"
    THEN [evaluations |-> IF c.terminal \in {"cached-hit", "remote-success"}
                          THEN 1 ELSE 0,
          cache_hits |-> IF c.terminal = "cached-hit" THEN 1 ELSE 0,
          cache_misses |-> IF c.g_lookup # <<>> /\ c.terminal # "cached-hit"
                                /\ c.pc # "lock_wait" THEN 1 ELSE 0,
          errors |-> IF c.terminal = "offline-fallback" THEN 1 ELSE 0,
          network_requests |->
              IF \/ c.pc \in {"http", "sleep", "cache_set", "finish"}
                 \/ c.terminal \in {"remote-success", "offline-fallback"}
              THEN 1 ELSE 0]
    ELSE IF c.op = "batch"
    THEN [evaluations |-> IF c.pc = "done" THEN Len(c.flag_keys) ELSE 0,
          cache_hits |-> Cardinality(KeysOf(c.cache_hits)),
          cache_misses |-> Len(c.cache_misses),
          errors |-> IF c.pc = "done" /\ c.g_batchreq # <<>>
                        /\ c.g_batchreq[1].status # "200" THEN 1 ELSE 0,
          network_requests |->
              IF c.pc \in {"b_http", "b_set"} \/ c.g_batchreq # <<>>
              THEN 1 ELSE 0]
    ELSE [evaluations |-> 0, cache_hits |-> 0, cache_misses |-> 0,
          errors |-> 0, network_requests |-> 0]

Counters ==
    {"evaluations", "cache_hits", "cache_misses", "errors", "network_requests"}

\* Run one after another, a call adds Delta to the counters it found.
DeltaIsSerial ==
    \A t \in Tasks : \A k \in Counters :
        call[t].pc # "idle"
        => metrics[k] = call[t].g_m0[k] + Delta(call[t])[k]

\* C15: with two calls of one client interleaving at their suspension
\* points, each counter is the sum of what the two calls add when they run
\* one after another with the same outcomes: no update is lost.
C15_NoLostUpdates ==
    \A k \in Counters :
        metrics[k] = Delta(call[1])[k] + Delta(call[2])[k]

\* C15, a case: a single evaluation and a batch overlapped (each began
\* before the other ended) and both have been counted.
C15_Witness ==
    /\ call[1].pc = "done" /\ call[1].op = "single"
    /\ call[2].pc = "done" /\ call[2].op = "batch"
    /\ call[1].terminal = "remote-success"
    /\ call[2].g_m0.cache_misses = 1
    /\ call[2].g_m0.evaluations = 0
    /\ Len(call[2].flag_keys) = 2
    /\ metrics.evaluations = 3

\* ====================================================================
\* Properties of the cache providers
\* ====================================================================
\* The entry last put under the key of the host's last operation, and the
\* time it was given to live.
LastPut == cacheop.g_puts[cacheop.key]
GivenTtl(p) == IF p.ttl = NoTtl THEN CacheTTL ELSE p.ttl

\* C16: a value stored with set(key, value, ttl = T) and not deleted since
\* is returned by a get made before T has elapsed, and a get made when T
\* has elapsed or later reports absent.
C16_TtlCorrect ==
    (cacheop.op = "get" /\ LastPut.live)
    => cacheop.ret = IF cacheop.at - LastPut.at < GivenTtl(LastPut)
                     THEN LastPut.value ELSE None

\* C17: exists(key) returns, and returns true exactly when a get(key) made
\* at that moment returns a value; for an expired entry that is still
\* stored it returns false. Stated for the entries whose value is not None.
C17_ExistsLikeGet ==
    ( /\ cacheop.op = "exists"
      /\ store[cacheop.key].present => store[cacheop.key].value # None )
    => /\ lock = 0
       /\ cacheop.ret =
             (ProviderGet(config.storage, store[cacheop.key], cacheop.at) # None)

\* The keys for which a get made at time t returns a value.
Gettable(t) ==
    {k \in DOMAIN store : ProviderGet(config.storage, store[k], t) # None}

\* C18: keys() is exactly the set of keys for which get returns a value at
\* that moment, and size() is the number of those keys. Stated for stores
\* whose values are not None.
C18_SizeKeysLive ==
    (\A k \in DOMAIN store : store[k].present => store[k].value # None)
    => /\ cacheop.op = "keys" => cacheop.ret = Gettable(cacheop.at)
       /\ cacheop.op = "size" => cacheop.ret = Cardinality(Gettable(cacheop.at))

\* C19: the memory provider never holds more than max_size entries, and a
\* set on a full cache stores the new entry all the same.
C19_CapacityBound ==
    config.storage = "memory"
    => /\ Cardinality(StoredKeys(store)) <= config.max_size
       /\ cacheop.op = "set"
            => /\ store[cacheop.key].present
               /\ store[cacheop.key].value = LastPut.value
               /\ Live("memory", store[cacheop.key], cacheop.at)

\* C19, a case: a set on a full cache discarded a live entry and stored
\* the new one.
C19_Witness ==
    /\ config.storage = "memory"
    /\ cacheop.op = "set"
    /\ cacheop.g_evicted # {}
    /\ cacheop.key \notin cacheop.g_evicted
    /\ store[cacheop.key].present
    /\ Cardinality(StoredKeys(store)) = config.max_size

\* ====================================================================
\* Properties of the TieredCache
\* ====================================================================
\* The tiers that held a value for the key when the last get was made.
TiersWith ==
    {i \in TierIndexes :
        TierValue(config.tier_storages, cacheop.g_tiers, i, cacheop.key,
                  cacheop.at) # None}

\* C20: a TieredCache.get(k) whose writes succeed returns the value held by
\* the first tier that has k, and absent only if no tier has it; the tiers
\* in front of that tier hold the value when get returns, so that a get on
\* tier 0 returns it.
C20_ReadThroughBackfill ==
    (cacheop.op = "tget" /\ cacheop.ret # "<raised>")
    => /\ cacheop.ret = None => TiersWith = {}
       /\ TiersWith # {} =>
            LET i == FirstIn(TiersWith)
                v == cacheop.g_tiers[i][cacheop.key].value
            IN /\ cacheop.ret = v
               /\ \A j \in TierIndexes :
                     j < i => TierValue(config.tier_storages, tiers, j,
                                        cacheop.key, cacheop.at) = v

\* The step is a delete or a clear of a provider, or of a TieredCache with
\* no tier failing.
DeleteStep ==
    /\ cacheop' # cacheop
    /\ cacheop'.op \in {"delete", "tdelete"}
    /\ cacheop'.g_evicted = {}
ClearStep ==
    /\ cacheop' # cacheop
    /\ cacheop'.op \in {"clear", "tclear"}
    /\ cacheop'.g_evicted = {}
Rows == <<store, tiers>>
RowOf(rows, key) == <<rows[1][key], rows[2][1][key], rows[2][2][key]>>
NoRows == [k \in CacheKeys |-> <<NoRow, NoRow, NoRow>>]

\* C21: delete(k) and clear() complete (the lock is left free) whatever is
\* stored; delete(k) removes k and leaves the other keys alone, so on a key
\* that is not stored it changes nothing; clear() leaves the cache empty,
\* so on an empty cache it changes nothing; a second delete(k) or clear()
\* in a row leaves the state of the first.
C21_IdempotentDeleteClear ==
    [][ /\ DeleteStep =>
            /\ lock' = 0
            /\ RowOf(Rows', cacheop'.key) = NoRows[cacheop'.key]
            /\ \A k \in CacheKeys \ {cacheop'.key} : RowOf(Rows', k) = RowOf(Rows, k)
            /\ RowOf(Rows, cacheop'.key) = NoRows[cacheop'.key] => Rows' = Rows
            /\ (cacheop.op = cacheop'.op /\ cacheop.key = cacheop'.key
                   /\ cacheop.g_evicted = {}) => Rows' = Rows
        /\ ClearStep =>
            /\ lock' = 0
            /\ \A k \in CacheKeys : RowOf(Rows', k) = NoRows[k]
            /\ (\A k \in CacheKeys : RowOf(Rows, k) = NoRows[k]) => Rows' = Rows
            /\ (cacheop.op = cacheop'.op /\ cacheop.g_evicted = {}) => Rows' = Rows
      ]_vars

\* C21, a case: a delete of a key that is not stored, on a disk provider
\* that holds another key, made right after a delete of the same key.
C21_Witness ==
    /\ config.storage = "disk"
    /\ cacheop.op = "delete"
    /\ ~store[cacheop.key].present
    /\ \E k \in ProbeKeys : store[k].present
    /\ cacheop.at = 1

\* ------------------------------------------------- RedisCache, its server
\* The key prefixes in use, character by character.
KeyPrefixes == {<<"a">>, <<"?">>}
RedisConfigs ==
    [storage : {"redis"}, mode : {"streaming"},
     retry_attempts : {DefaultRetryAttempts},
     offline_enabled : OfflineEnabledChoices, key_prefix : KeyPrefixes]

InitRedis == config \in RedisConfigs /\ Constructed

\* The keys the host gives the provider: one character each.
GivenKeys == [1..1 -> RedisChars]

\* f"{self.config.key_prefix}{key}" and f"{self.config.key_prefix}*"
PrefixedKey(prefix, key) == prefix \o key
ClearPattern(prefix) == prefix \o <<"*">>

\* str.startswith
StartsWith(s, prefix) ==
    Len(s) >= Len(prefix) /\ SubSeq(s, 1, Len(prefix)) = prefix

\* Whether the glob-style pattern of the KEYS command matches the key s:
\* "*" stands for any characters, "?" for any one character.
RECURSIVE GlobMatchRec(_, _)
GlobMatchRec(pattern, s) ==
    IF pattern = <<>> THEN s = <<>>
    ELSE IF Head(pattern) = "*"
    THEN GlobMatchRec(Tail(pattern), s)
         \/ (s # <<>> /\ GlobMatchRec(pattern, Tail(s)))
    ELSE /\ s # <<>>
         /\ Head(pattern) = "?" \/ Head(pattern) = Head(s)
         /\ GlobMatchRec(Tail(pattern), Tail(s))

GlobMatch(pattern, s) == GlobMatchRec(pattern, s)

\* await redis.keys(pattern)
RedisKeysMatching(server, pattern) ==
    {k \in DOMAIN server : server[k] # Absent /\ GlobMatch(pattern, k)}

\* await provider.set(key, value): setex under the prefixed key.
RSet(key, value) ==
    /\ lock = 0
    /\ redis' = [redis EXCEPT ![PrefixedKey(config.key_prefix, key)] = value]
    /\ cacheop' = Did("rset", key, None, cacheop.g_puts)
    /\ UNCHANGED <<config, session, offline_mode, ready, context, store, lock,
                   now, metrics, call, ncalls, g_written, tiers, probe, life, composite>>

\* Another application of the same server sets one of its keys.
OtherSet(raw_key, value) ==
    /\ redis' = [redis EXCEPT ![raw_key] = value]
    /\ cacheop' = Did("other", raw_key, None, cacheop.g_puts)
    /\ UNCHANGED <<config, session, offline_mode, ready, context, store, lock,
                   now, metrics, call, ncalls, g_written, tiers, probe, life, composite>>

\* await provider.clear(): the keys matching the pattern are deleted.
RClear ==
    /\ lock = 0
    /\ LET keys == RedisKeysMatching(redis, ClearPattern(config.key_prefix))
       IN redis' = [k \in DOMAIN redis |-> IF k \in keys THEN Absent ELSE redis[k]]
    /\ cacheop' = [Did("rclear", <<>>, None, cacheop.g_puts)
                      EXCEPT !.g_tiers = redis]
    /\ UNCHANGED <<config, session, offline_mode, ready, context, store, lock,
                   now, metrics, call, ncalls, g_written, tiers, probe, life, composite>>

NextRedis ==
    \/ \E k \in GivenKeys, v \in Values : RSet(k, v)
    \/ \E k \in RedisKeys, v \in Values : OtherSet(k, v)
    \/ RClear

SpecRedis == InitRedis /\ [][NextRedis]_vars

\* C22: after RedisCache.clear(), every key of the server that does not
\* start with the provider's key prefix holds the value it held before the
\* call, and no key that starts with the prefix is left.
C22_ClearOnlyPrefix ==
    cacheop.op = "rclear" =>
        \A k \in RedisKeys :
            IF StartsWith(k, config.key_prefix) THEN redis[k] = Absent
            ELSE redis[k] = cacheop.g_tiers[k]

\* ------------------------------------------------- the text of a cache key
\* A dict is the sequence of its items in insertion order, the names
\* distinct. AttrOrder is the order sorted() gives the names in use.
AttrOrder == <<"plan", "region">>
AttrNames == {AttrOrder[i] : i \in DOMAIN AttrOrder}
AttrValues == {"x", "y"}
Items == [name : AttrNames, value : AttrValues]
Dicts ==
    {d \in UNION {[1..n -> Items] : n \in 0..Len(AttrOrder)} :
        \A i, j \in DOMAIN d : d[i].name = d[j].name => i = j}
UserIds == {None, "u1"}

\* types.py EvaluationContext, device and session left at None.
EvaluationContexts ==
    [user_id : UserIds, attributes : Dicts, device : {None}, session : {None}]

\* context = None, among records.
NoContext == [none |-> TRUE]

NamesOf(d) == {d[i].name : i \in DOMAIN d}
ValueIn(d, name) == d[CHOOSE i \in DOMAIN d : d[i].name = name].value

\* A variant of json.dumps that writes a dict in insertion order.
DumpOrder_Inserted(d, order) == [i \in DOMAIN d |-> d[i].name]

\* The names of d in the order json.dumps(..., sort_keys=True) writes them.
DumpOrder(d, order) == SelectSeq(order, LAMBDA name : name \in NamesOf(d))

RECURSIVE JoinItems(_, _, _)
JoinItems(d, names, first) ==
    IF names = <<>> THEN <<>>
    ELSE (IF first THEN <<>> ELSE <<", ">>)
         \o <<"\"", Head(names), "\"", ": ", "\"", ValueIn(d, Head(names)), "\"">>
         \o JoinItems(d, Tail(names), FALSE)

\* json.dumps of a dict of strings, and of None or a string.
json_dumps_dict(d) == <<"{">> \o JoinItems(d, DumpOrder(d, AttrOrder), TRUE) \o <<"}">>
json_dumps_str(v) == IF v = None THEN <<"null">> ELSE <<"\"", v, "\"">>

\* FlexFlagClient._context_to_dict, the four entries in sorted order.
context_to_dict(ctx) ==
    [attributes |-> ctx.attributes,
     device |-> IF ctx.device = None THEN <<>> ELSE ctx.device,
     session |-> IF ctx.session = None THEN <<>> ELSE ctx.session,
     userId |-> ctx.user_id]

\* json.dumps(self._context_to_dict(context), sort_keys=True)
context_str(ctx) ==
    LET dict == context_to_dict(ctx)
    IN <<"{", "\"attributes\"", ": ">> \o json_dumps_dict(dict.attributes)
       \o <<", ", "\"device\"", ": ">> \o json_dumps_dict(dict.device)
       \o <<", ", "\"session\"", ": ">> \o json_dumps_dict(dict.session)
       \o <<", ", "\"userId\"", ": ">> \o json_dumps_str(dict.userId)
       \o <<"}">>

\* FlexFlagClient._build_cache_key, as the text it returns.
build_cache_key(flag_key, ctx) ==
    IF ctx = NoContext THEN <<flag_key, "::", environment>>
    ELSE <<flag_key, "::">> \o context_str(ctx) \o <<"::", environment>>

\* The host evaluates one flag for two contexts: the keys built.
BuildKeys(flag_key, c1, c2) ==
    /\ probe.op = "none"
    /\ probe' = [op |-> "_build_cache_key", args |-> <<flag_key, c1, c2>>,
                 ret |-> <<build_cache_key(flag_key, c1),
                           build_cache_key(flag_key, c2)>>,
                 g_probe_ok |-> TRUE]
    /\ UNCHANGED <<config, session, offline_mode, ready, context, store, lock,
                   now, metrics, call, ncalls, g_written, cacheop, tiers, redis, life, composite>>

InitKey == config \in SingleConfigs /\ Constructed
NextKey ==
    \E f \in Flags, c1 \in EvaluationContexts \cup {NoContext}, c2 \in EvaluationContexts :
        BuildKeys(f, c1, c2)
SpecKey == InitKey /\ [][NextKey]_vars

\* The attributes of a context as a mapping.
AsMapping(d) == [name \in NamesOf(d) |-> ValueIn(d, name)]

\* C23: for one flag key and the environment, two contexts with the same
\* user id, device and session get the same cache key exactly when their
\* attributes are the same mapping, whatever the insertion order; so a
\* difference in one attribute value gives different keys.
C23_KeyDeterminism ==
    probe.op = "_build_cache_key" /\ probe.args[2] # NoContext =>
        LET c1 == probe.args[2]
            c2 == probe.args[3]
        IN (c1.user_id = c2.user_id /\ c1.device = c2.device
              /\ c1.session = c2.session) =>
             ((probe.ret[1] = probe.ret[2])
                 <=> (AsMapping(c1.attributes) = AsMapping(c2.attributes)))

\* C23, a case: two attributes inserted in the two orders, one key.
C23_Witness ==
    /\ probe.op = "_build_cache_key"
    /\ probe.args[2] # NoContext
    /\ Len(probe.args[2].attributes) = 2
    /\ probe.args[2].attributes # probe.args[3].attributes
    /\ AsMapping(probe.args[2].attributes) = AsMapping(probe.args[3].attributes)
    /\ probe.ret[1] = probe.ret[2]

\* The events a call has fired, and the lookup a call made for a key.
EventsOf(t) == {call[t].g_events[i] : i \in 1..Len(call[t].g_events)}
LookupsOf(t, key) ==
    IF call[t].op = "single"
    THEN {call[t].g_lookup[i] : i \in {j \in 1..Len(call[t].g_lookup) :
                                          call[t].flag_key = key}}
    ELSE {call[t].g_lookup[i] : i \in {j \in 1..Len(call[t].g_lookup) :
                                          call[t].flag_keys[j] = key}}
\* Whether a response of the call carried value for key: a result built
\* from the response to the last request (single), an entry of the body
\* of the 200 response (batch).
FromResponse(t, key, value) ==
    IF call[t].op = "single"
    THEN /\ key = call[t].flag_key
         /\ call[t].g_reqlog # <<>>
         /\ ReturnsResult(call[t].g_reqlog[Len(call[t].g_reqlog)])
         /\ call[t].result.value = value
         /\ call[t].result.reason \in {"TARGETING_MATCH", "DEFAULT"}
    ELSE /\ call[t].g_batchreq # <<>>
         /\ call[t].g_batchreq[1].status = "200"
         /\ call[t].remote_results[key] = value
         /\ value # Absent

\* C24: on_cache_hit(key) is fired only when the lookup of that key
\* returned a value; on_evaluation(key, value) only when value came with
\* a network response of that call (a 200, or the 404 that yields the
\* caller's default), so never by a call served from the cache, resolved
\* in offline mode or ended by the offline fallback.
C24_EventFiringPoints ==
    \A t \in Tasks : \A e \in EventsOf(t) :
        /\ e[1] = "on_cache_hit" =>
              \E l \in LookupsOf(t, e[2]) : l.io = "ok" /\ l.held # None
        /\ e[1] = "on_evaluation" =>
              /\ FromResponse(t, e[2], e[3])
              /\ ~IsOffline(offline_mode, config.mode)
              /\ call[t].op = "single" =>
                    call[t].terminal \in {"none", "remote-success"}

\* C24, a case: a batch with one key served from the cache, which fired
\* on_cache_hit, and one fetched, which fired on_evaluation.
C24_Witness ==
    \E t \in Tasks :
        /\ call[t].op = "batch"
        /\ call[t].pc = "done"
        /\ \E e \in EventsOf(t) : e[1] = "on_cache_hit"
        /\ \E e \in EventsOf(t) : e[1] = "on_evaluation"

\* C25: when the health probe of wait_for_ready fails for good and offline
\* mode is enabled, wait_for_ready does not raise and leaves the client
\* ready and offline; an offline client stays offline whatever is called
\* next, a successful wait_for_ready included; and a call made by an
\* offline client sends no request, a cache miss of evaluate_with_details
\* being resolved from the offline defaults.
C25_OfflineIsPermanent ==
    /\ []( (probe.op = "wait_for_ready" /\ ~probe.g_probe_ok
              /\ config.offline_enabled)
           => (probe.ret = <<"True">> /\ ready /\ offline_mode) )
    /\ [][offline_mode => offline_mode']_vars
    /\ []( \A t \in Tasks :
             (offline_mode /\ call[t].pc # "idle") =>
                /\ call[t].g_reqlog = <<>>
                /\ call[t].g_batchreq = <<>>
                /\ (call[t].op = "single" /\ call[t].pc = "done") =>
                      call[t].terminal \in {"cached-hit", "offline-result"} )

\* C25, a case: a client of an online configuration that went offline, on
\* which a later wait_for_ready succeeded, has resolved a cache miss from
\* the offline defaults.
C25_Witness ==
    /\ config.mode # "offline"
    /\ offline_mode
    /\ probe.op = "wait_for_ready" /\ probe.g_probe_ok
    /\ \E t \in Tasks :
          /\ call[t].op = "single"
          /\ call[t].pc = "done"
          /\ call[t].terminal = "offline-result"
          /\ call[t].g_reqlog = <<>>

\* ------------------------------------- sessions, polling task and close
\* WaitForReady above is _initialize in one step, as the evaluation
\* pipelines see it. Here it is taken await by await, with the objects it
\* creates, so that calls of wait_for_ready and close interleave.
MaxInits == 2                        \* wait_for_ready calls on one client
MaxPolls == 1                        \* wake-ups of one polling task

LifeModes == {"streaming", "polling", "offline"}
LifeConfigs ==
    [storage : {"memory", "redis"}, mode : LifeModes,
     retry_attempts : {DefaultRetryAttempts},
     offline_enabled : OfflineEnabledChoices]

InitLife == config \in LifeConfigs /\ Constructed

\* A polling task just made by asyncio.create_task: not yet run.
NewPolling == [state |-> "created", iterations |-> 0]
PollingDone(p) == p.state \in {"finished", "cancelled"}

\* _initialize after the probe (lines 84-88 and 96-102): the polling
\* task if the mode is polling, ready, or offline mode.
InitTail(t, l, probe_ok) ==
    /\ life' = [l EXCEPT
          !.pc[t] = "idle",
          !.polling = IF probe_ok /\ config.mode = "polling"
                      THEN Append(@, NewPolling) ELSE @,
          !.polling_ref = IF probe_ok /\ config.mode = "polling"
                          THEN Len(l.polling) + 1 ELSE @]
    /\ probe' = ReadyCall(probe_ok, config.offline_enabled)
    /\ offline_mode' = OfflineAfterInit(offline_mode, probe_ok,
                                        config.offline_enabled)
    /\ ready' = (ready \/ probe_ok \/ config.offline_enabled)

\* wait_for_ready up to the first await of _test_connection: a new
\* ClientSession is assigned to self._session (line 70). In offline mode
\* there is no probe and _initialize runs to its end.
InitBegin(t) ==
    /\ life.pc[t] = "idle"
    /\ Len(life.sessions) < MaxInits
    /\ session' = "open"
    /\ LET l == [life EXCEPT !.sessions = Append(@, "open"),
                             !.session_ref = Len(life.sessions) + 1]
       IN IF config.mode = "offline"
          THEN InitTail(t, l, TRUE)
          ELSE /\ life' = [l EXCEPT !.pc[t] = "probing"]
               /\ UNCHANGED <<probe, offline_mode, ready>>
    /\ UNCHANGED <<config, context, store, lock, now, metrics, call, ncalls,
                   g_written, cacheop, tiers, redis, composite>>

\* The probe has ended, well or not, and _initialize runs to its end.
InitEnd(t) ==
    /\ life.pc[t] = "probing"
    /\ \E probe_ok \in ProbeOutcomes(config) : InitTail(t, life, probe_ok)
    /\ UNCHANGED <<config, session, context, store, lock, now, metrics, call,
                   ncalls, g_written, cacheop, tiers, redis, composite>>

\* The event loop runs a polling task for the first time: it enters the
\* try block of _start_polling and sleeps.
PollingStart(i) ==
    /\ life.polling[i].state = "created"
    /\ life' = [life EXCEPT !.polling[i].state = "sleeping"]
    /\ UNCHANGED <<config, session, offline_mode, ready, context, store, lock,
                   now, metrics, call, ncalls, g_written, cacheop, tiers,
                   redis, probe, composite>>

\* The sleep of a polling task ends: one iteration, and it sleeps again.
PollingWake(i) ==
    /\ life.polling[i].state = "sleeping"
    /\ life.polling[i].iterations < MaxPolls
    /\ life' = [life EXCEPT !.polling[i].iterations = @ + 1]
    /\ UNCHANGED <<config, session, offline_mode, ready, context, store, lock,
                   now, metrics, call, ncalls, g_written, cacheop, tiers,
                   redis, probe, composite>>

\* task.cancel(): a task that has not run yet ends cancelled; one asleep
\* in _start_polling gets CancelledError in its try block and breaks out
\* of the loop; one that is done is left as it is.
Cancel(p) ==
    IF p.state = "created" THEN [p EXCEPT !.state = "cancelled"]
    ELSE IF p.state = "sleeping" THEN [p EXCEPT !.state = "finished"]
    ELSE p

\* What `await task` gives for a task that is done.
AwaitTask(p) == IF p.state = "cancelled" THEN "CancelledError" ELSE "None"

\* A variant of close without its except clause.
CloseCatches_Nothing(exc) == FALSE

\* close: except asyncio.CancelledError: pass
CloseCatches(exc) == exc = "CancelledError"

\* close from `if self._session` on (lines 500-506): the session
\* self._session refers to is closed, and the cache if it has a close.
CloseTail(t, l) ==
    /\ life' = [l EXCEPT
          !.pc[t] = "idle",
          !.awaited[t] = 0,
          !.sessions = IF l.session_ref # 0
                       THEN [@ EXCEPT ![l.session_ref] = "closed"] ELSE @,
          !.close_ret = "returned",
          !.closes = @ + 1]
    /\ session' = IF l.session_ref # 0 THEN "closed" ELSE session

\* close up to `await self._polling_task` (lines 493-496): the task is
\* cancelled. Without a task close runs on to its end.
MaxCloses == 2
CloseBegin(t) ==
    /\ life.pc[t] = "idle"
    /\ life.closes < MaxCloses
    /\ \A u \in Tasks : life.pc[u] # "closing"
    /\ IF life.polling_ref = 0
       THEN CloseTail(t, life)
       ELSE /\ life' = [life EXCEPT
                  !.pc[t] = "closing",
                  !.awaited[t] = life.polling_ref,
                  !.polling[life.polling_ref] = Cancel(@)]
            /\ UNCHANGED session
    /\ UNCHANGED <<config, offline_mode, ready, context, store, lock, now,
                   metrics, call, ncalls, g_written, cacheop, tiers, redis,
                   probe, composite>>

\* The awaited task is done: its CancelledError, if any, is passed over,
\* else close ends raising it.
CloseEnd(t) ==
    /\ life.pc[t] = "closing"
    /\ PollingDone(life.polling[life.awaited[t]])
    /\ LET exc == AwaitTask(life.polling[life.awaited[t]])
       IN IF exc = "None" \/ CloseCatches(exc)
          THEN CloseTail(t, life)
          ELSE /\ life' = [life EXCEPT !.pc[t] = "idle", !.awaited[t] = 0,
                                        !.close_ret = "raised",
                                        !.closes = @ + 1]
               /\ UNCHANGED session
    /\ UNCHANGED <<config, offline_mode, ready, context, store, lock, now,
                   metrics, call, ncalls, g_written, cacheop, tiers, redis,
                   probe, composite>>

\* Coroutines of the host that call wait_for_ready and close, and the
\* event loop running the polling tasks.
NextLife ==
    \/ \E t \in Tasks : InitBegin(t)
    \/ \E t \in Tasks : InitEnd(t)
    \/ \E i \in 1..MaxInits : i <= Len(life.polling) /\ PollingStart(i)
    \/ \E i \in 1..MaxInits : i <= Len(life.polling) /\ PollingWake(i)
    \/ \E t \in Tasks : CloseBegin(t)
    \/ \E t \in Tasks : CloseEnd(t)

SpecLife == InitLife /\ [][NextLife]_vars

\* C26: close never ends with the CancelledError of the polling task,
\* whether the task it cancels was asleep, had not run yet or was done
\* already (a second close), and also on a client without a task or
\* never initialised; when close returns, the task it cancelled is done;
\* and a task that is done makes no further iteration.
C26_CloseCancelsPolling ==
    /\ [](life.close_ret # "raised")
    /\ [][\A t \in Tasks :
            (life.pc[t] = "closing" /\ life'.pc[t] = "idle") =>
                PollingDone(life'.polling[life.awaited[t]])]_vars
    /\ [][\A i \in 1..Len(life.polling) :
            PollingDone(life.polling[i]) => life'.polling[i] = life.polling[i]]_vars

\* C26, a case: close has returned twice on a client whose polling task
\* was cancelled before it ever ran.
C26_Witness ==
    /\ life.closes = 2
    /\ life.close_ret = "returned"
    /\ life.polling_ref # 0
    /\ life.polling[life.polling_ref].state = "cancelled"
    /\ \A t \in Tasks : life.pc[t] = "idle"

\* The sessions that are open and the polling tasks that are not done.
OpenSessions == {i \in 1..Len(life.sessions) : life.sessions[i] = "open"}
LivePolling == {i \in 1..Len(life.polling) : ~PollingDone(life.polling[i])}

\* C30: whatever calls of wait_for_ready were made on the client, one
\* after the other or at once, at most one session is open and at most
\* one polling task is alive; and when close returns with no
\* wait_for_ready under way, no session is left open and no polling task
\* alive.
C30_SingleTransport ==
    /\ [](Cardinality(OpenSessions) <= 1 /\ Cardinality(LivePolling) <= 1)
    /\ [][(life'.closes = life.closes + 1
             /\ \A t \in Tasks : life'.pc[t] = "idle")
           => (OpenSessions' = {} /\ LivePolling' = {})]_vars

\* The call's requests all failed, or it had none to make.
NetworkFailed(t) ==
    \/ config.retry_attempts = 0
    \/ /\ call[t].g_reqlog # <<>>
       /\ ~ReturnsResult(call[t].g_reqlog[Len(call[t].g_reqlog)])

\* C27: a single evaluation whose cache.get raised goes on as on a miss:
\* cache_misses is one more, it is no hit, an offline client resolves it
\* offline, an online one fetches, and it takes the fallback (errors + 1)
\* only if the fetch failed. One whose cache.set raised after a fetch
\* returns the remote result with its remote reason, errors unchanged.
C27_CacheFailureIsMiss ==
    \A t \in Singles :
        /\ (LookedUp(t) /\ Lookup(t).io = "io_error") =>
              /\ metrics.cache_misses = call[t].g_m0.cache_misses + 1
              /\ metrics.cache_hits = call[t].g_m0.cache_hits
              /\ call[t].terminal # "cached-hit"
              /\ call[t].pc = "done" =>
                    IF IsOffline(offline_mode, config.mode)
                    THEN call[t].terminal = "offline-result"
                    ELSE call[t].terminal \in {"remote-success", "offline-fallback"}
              /\ call[t].terminal = "offline-fallback" => NetworkFailed(t)
              /\ metrics.errors = call[t].g_m0.errors
                    + (IF call[t].terminal = "offline-fallback" THEN 1 ELSE 0)
        /\ call[t].g_set = "io_error" =>
              /\ call[t].pc \in {"finish", "done"}
              /\ ReturnsResult(call[t].g_reqlog[Len(call[t].g_reqlog)])
              /\ call[t].result.reason \in {"TARGETING_MATCH", "DEFAULT"}
              /\ call[t].result.source # "offline"
              /\ call[t].pc = "done" => call[t].terminal = "remote-success"
              /\ metrics.errors = call[t].g_m0.errors

\* C27, a case: both the read and the write of the cache failed, and the
\* call returned the value of the 200 response.
C27_Witness ==
    \E t \in Singles :
        /\ call[t].pc = "done"
        /\ Lookup(t).io = "io_error"
        /\ call[t].g_set = "io_error"
        /\ call[t].g_reqlog = <<"200">>
        /\ call[t].result.reason = "TARGETING_MATCH"
        /\ call[t].result.value \in Values

\* ------------------------------------------------------------ construction
\* The storage strings a CacheConfig is given: those of CacheStorage and
\* one outside it.
StorageStrings == {"memory", "disk", "redis", "custom", "tiered"}
NewConfigs ==
    [cache_enabled : BOOLEAN, storage : StorageStrings, mode : LifeModes,
     retry_attempts : {DefaultRetryAttempts},
     offline_enabled : OfflineEnabledChoices]

\* A variant of the factory that falls back on a MemoryCache.
create_cache_provider_Lenient(storage) ==
    IF storage = "disk" THEN "DiskCache"
    ELSE IF storage = "redis" THEN "RedisCache"
    ELSE "MemoryCache"

\* cache.py create_cache_provider: the provider made, or the error raised.
create_cache_provider(storage) ==
    IF storage = "memory" THEN "MemoryCache"
    ELSE IF storage = "disk" THEN "DiskCache"
    ELSE IF storage = "redis" THEN "RedisCache"
    ELSE "ValueError"

\* What FlexFlagClient(config) gives its caller: self.cache of the new
\* client, or the error of the factory, which __init__ does not catch.
NewClient(cf) ==
    IF cf.cache_enabled THEN create_cache_provider(cf.storage) ELSE None

\* No client yet: the host holds a configuration only.
InitNew ==
    /\ config \in NewConfigs
    /\ Constructed

\* client = FlexFlagClient(config)
Construct ==
    /\ probe.op = "none"
    /\ probe' = [op |-> "__init__", args |-> <<>>, ret |-> <<NewClient(config)>>,
                 g_probe_ok |-> TRUE]
    /\ UNCHANGED <<config, session, offline_mode, ready, context, store, lock,
                   now, metrics, call, ncalls, g_written, cacheop, tiers,
                   redis, life, composite>>

\* Whether the host holds a client: the constructor has returned one.
HasClient == probe.op # "none" /\ probe.ret # <<"ValueError">>

\* The host constructs the client and then uses the one it got.
NextNew ==
    \/ Construct
    \/ HasClient /\ \E t \in Tasks : InitBegin(t)
    \/ HasClient /\ \E t \in Tasks : InitEnd(t)
    \/ HasClient /\ \E t \in Tasks : CloseBegin(t)

SpecNew == InitNew /\ [][NextNew]_vars

Attempts(t) ==
    IF call[t].op = "single" THEN call[t].g_reqlog
    ELSE [i \in 1..Len(call[t].g_batchreq) |-> call[t].g_batchreq[i].status]

\* C29: a remote call, the single evaluate call or the batch one, is
\* attempted again after a failure that can be retried (a 500, a timeout):
\* a call that gave up and fell back has made retry_attempts attempts.
C29_EachCallRetried ==
    \A t \in Tasks :
        ( /\ call[t].pc = "done"
          /\ TookFallback(t)
          /\ config.retry_attempts >= 1
          /\ Attempts(t) # <<>>
          /\ \A i \in 1..Len(Attempts(t)) : Attempts(t)[i] \in {"500", "timeout"} )
        => Len(Attempts(t)) = config.retry_attempts

\* The delay the schedule gives the i-th sleep of a call (i from 1).
Scheduled(i) == Delay(config.retry_delay, config.exponential_backoff, i - 1)

\* C31: every failed attempt of a remote fetch is followed by a sleep of
\* retry_delay * 2^attempt with exponential backoff, else of retry_delay:
\* a call that fell back after n failed attempts has slept n times, the
\* i-th time for the delay of attempt i - 1 (with three attempts: delay,
\* 2 * delay, 4 * delay).
C31_BackoffSchedule ==
    \A t \in Singles :
        (call[t].pc = "done" /\ call[t].terminal = "offline-fallback") =>
            /\ Len(call[t].g_sleeps) = Len(call[t].g_reqlog)
            /\ \A i \in 1..Len(call[t].g_sleeps) : call[t].g_sleeps[i] = Scheduled(i)

\* C32: DiskCache.get(k) and DiskCache.exists(k) on a row whose expiry has
\* passed return (the lock is free again, so later operations run), report
\* None or False, and leave no row for k.
C32_LazyExpiry ==
    config.storage = "disk" =>
        /\ lock = 0
        /\ (cacheop.op \in {"get", "exists"} /\ cacheop.at = now) =>
              /\ \/ store[cacheop.key].present
                 \/ IF cacheop.op = "get" THEN cacheop.ret = None
                    ELSE cacheop.ret = FALSE
              /\ ~(store[cacheop.key].present
                    /\ RowExpired("disk", store[cacheop.key], now))

\* C33: a TieredCache.get(k) that finds a value at a tier behind tier 0
\* returns that value, also when a write to a tier in front of it fails; it
\* does not raise.
C33_BackfillBestEffort ==
    (/\ cacheop.op = "tget"
     /\ cacheop.ret # "<blocked>"
     /\ TiersWith # {}
     /\ FirstIn(TiersWith) > 1)
    => cacheop.ret = cacheop.g_tiers[FirstIn(TiersWith)][cacheop.key].value

\* The last operation went through every tier of the TieredCache, and the
\* tiers whose own operation succeeded show its effect.
FanOuts == {"tset", "tdelete", "tclear"}
TierUpdated(i) ==
    CASE cacheop.op = "tset" -> tiers[i][cacheop.key].present
      [] cacheop.op = "tdelete" -> ~tiers[i][cacheop.key].present
      [] OTHER -> \A k \in DOMAIN tiers[i] : ~tiers[i][k].present

\* C34: TieredCache.set, delete and clear update every tier whose own
\* operation succeeds, whichever other tier fails; a failure behind tier 0
\* is not raised; the call returns normally only if tier 0 succeeded.
C34_FanOutFailurePolicy ==
    (cacheop.op \in FanOuts /\ cacheop.at = now) =>
        /\ \A i \in TierIndexes \ cacheop.g_evicted : TierUpdated(i)
        /\ 1 \notin cacheop.g_evicted => cacheop.ret = None
        /\ cacheop.ret = None => 1 \notin cacheop.g_evicted

\* ------------------------------------------- the client's shared context
\* A coroutine of the host can run only while every call is suspended in
\* the event loop: at a request, in a backoff sleep, or in a command sent
\* to Redis; the lock of an in-process provider is free and taken at once.
Suspended(c) ==
    \/ c.pc \in {"idle", "done", "http", "b_http", "sleep", "lock_wait"}
    \/ c.pc = "cache_get" /\ config.storage = "redis"

\* client.set_context(ctx): self.context is another object from now on; a
\* running call keeps the object it took, which nothing changes any more.
SetContext(u) ==
    /\ \A t \in Tasks : Suspended(call[t])
    /\ context # u
    /\ context' = u
    /\ call' = [t \in Tasks |->
                  [call[t] EXCEPT !.ctx = ContextNow(call[t]),
                                  !.ctx_shared = FALSE]]
    /\ UNCHANGED <<config, session, offline_mode, ready, store, lock, now,
                   metrics, ncalls, g_written, cacheop, tiers, redis, probe,
                   life, composite>>

\* client.update_context({"user_id": u}): the object self.context refers to
\* is changed in place, or created when there is none.
UpdateContext(u) ==
    /\ \A t \in Tasks : Suspended(call[t])
    /\ context # u
    /\ context' = u
    /\ UNCHANGED <<config, session, offline_mode, ready, store, lock, now,
                   metrics, call, ncalls, g_written, cacheop, tiers, redis,
                   probe, life, composite>>

ContextConfigs ==
    {cf \in Configs : /\ cf.storage \in {"memory", "redis"}
                      /\ cf.mode = "streaming"
                      /\ cf.retry_attempts = MaxRetry}

InitContext == config \in ContextConfigs /\ Constructed

\* One coroutine evaluating with the client's context, another changing it.
NextContext ==
    \/ \E t \in SerialTasks :
          \/ WaitForReady(t)
          \/ \E f \in Flags : EvaluateWithDetails(t, f, None, None)
          \/ CacheGet(t)
          \/ HttpAttempt(t)
          \/ Sleep(t)
          \/ CacheSet(t)
          \/ Finish(t)
          \/ \E ks \in FlagLists : EvaluateBatch(t, ks, None)
          \/ BatchGet(t)
          \/ BatchHttp(t)
          \/ BatchSet(t)
          \/ Return(t)
    \/ \E u \in SharedContexts : SetContext(u)
    \/ \E u \in SharedContexts : UpdateContext(u)

SpecContext == InitContext /\ [][NextContext]_vars

\* C35: the key a call writes a server value under is the key of the
\* context its request carried, and the key it looked the flag up under,
\* whatever update_context does while the call is suspended.
C35_KeyMatchesContext ==
    \A t \in Tasks :
        LET c == call[t]
        IN /\ (c.op = "single" /\ c.g_set = "stored") =>
                 c.cache_key = BuildCacheKey(c.flag_key, c.g_payload)
           /\ c.op = "batch" =>
                 \A f \in Flags :
                    c.g_setkeys[f] # <<>> =>
                       /\ c.g_setkeys[f] = BuildCacheKey(f, c.g_payload)
                       /\ c.g_keys[f] # <<>> => c.g_setkeys[f] = c.g_keys[f]

\* C36: get_variation (an evaluation without default_value) answered from
\* the cache returns the variation that the evaluation which fetched the
\* cached value from the server returned.
C36_VariationIgnoresCache ==
    \A t1, t2 \in Singles :
        (/\ call[t1].pc = "done" /\ call[t1].terminal = "remote-success"
         /\ call[t1].g_set = "stored"
         /\ call[t2].pc = "done" /\ call[t2].terminal = "cached-hit"
         /\ call[t2].cache_key = call[t1].cache_key
         /\ g_written = [key |-> call[t1].cache_key,
                         value |-> call[t1].result.value])
        => call[t2].result.variation = call[t1].result.variation

\* C37: whatever the body of the batch response holds, the mapping
\* evaluate_batch returns has requested keys only, gives every key that was
\* a cache hit its cached value, and no key outside the cache misses is
\* written to the cache.
C37_BatchOnlyRequested ==
    \A t \in Tasks :
        call[t].op = "batch" =>
            /\ \A f \in Flags :
                  call[t].g_setkeys[f] # <<>> => f \in Range(call[t].cache_misses)
            /\ call[t].pc = "done" =>
                  /\ KeysOf(call[t].results) \subseteq Range(call[t].flag_keys)
                  /\ \A f \in KeysOf(call[t].cache_hits) :
                        call[t].results[f] = call[t].cache_hits[f]

\* C38: when the row under a call's key was written by an evaluation the
\* server gave no value (not found, or a body without "value": the row
\* holds that caller's default_value, which is no value of the server), an
\* evaluation of that flag and context returns its own default_value.
C38_DefaultNeverLeaks ==
    \A t \in Singles :
        (/\ call[t].pc = "done"
         /\ call[t].terminal \in {"cached-hit", "remote-success"}
         /\ "200" \notin Statuses(t)
         /\ g_written.key = call[t].cache_key
         /\ g_written.value \notin ServerValues)
        => call[t].result.value = call[t].default_value

\* C39: a TieredCache.get(k) that follows a TieredCache.delete(k), with no
\* set in between, reports absent, and no tier that was without k holds k
\* after it, whichever tier's delete failed.
C39_DeleteEffective ==
    [][(/\ cacheop.op = "tdelete"
        /\ cacheop'.op = "tget"
        /\ cacheop'.key = cacheop.key
        /\ cacheop'.ret # "<blocked>")
       => /\ cacheop'.ret = None
          /\ \A i \in TierIndexes :
                ~tiers[i][cacheop.key].present => ~tiers'[i][cacheop.key].present]_vars

\* ------------------------------- coroutines sharing one TieredCache
\* Two coroutines call get and set of one TieredCache. Each tier operation
\* is awaited, so the other coroutine may run between any two of them.
OpKey == BuildCacheKey("a", None)
OldValue == "v1"
NewValue == "v2"
UNCH_Composite ==
    UNCHANGED <<config, session, offline_mode, ready, context, store, lock,
                now, metrics, call, ncalls, g_written, cacheop, redis, probe,
                life>>
OpsIdle == \A t \in Tasks : composite.ops[t].pc = "idle"

\* A variant of the lock that never makes a coroutine wait.
LockFree_Always(holder) == TRUE

\* asyncio.Lock.acquire returns at once when the lock is not held.
LockFree(holder) == holder = 0

\* The host puts a value into one tier, before the composite is used.
Seed(i) ==
    /\ OpsIdle
    /\ ~tiers[i][OpKey].present
    /\ tiers' = [tiers EXCEPT ![i] =
                    StoreAfterSetTtl(config.tier_storages[i], tiers[i], OpKey,
                                     OldValue, NoTtl, now, FALSE)]
    /\ UNCHANGED composite
    /\ UNCH_Composite

\* tiered.get(key) / tiered.set(key, value) up to `async with self._lock`.
OpBegin(t, op, value) ==
    /\ composite.ops[t].pc = "idle"
    /\ \A u \in Tasks : composite.ops[u].op # op
    /\ composite' = [composite EXCEPT !.ops[t] =
                        [IdleOp EXCEPT !.pc = "acquire", !.op = op,
                                       !.key = OpKey, !.value = value]]
    /\ UNCHANGED tiers
    /\ UNCH_Composite

\* The lock is held: the coroutine is queued behind its holder.
OpWait(t) ==
    /\ composite.ops[t].pc = "acquire"
    /\ ~LockFree(composite.lock)
    /\ composite' = [composite EXCEPT !.ops[t].pc = "waiting",
                                      !.ops[t].g_waited = TRUE]
    /\ UNCHANGED tiers
    /\ UNCH_Composite

\* The lock is taken: get goes to tier 0, set starts every tier's set.
OpAcquire(t) ==
    /\ composite.ops[t].pc \in {"acquire", "waiting"}
    /\ LockFree(composite.lock)
    /\ composite' = [composite EXCEPT
            !.lock = t,
            !.ops[t].pc = IF composite.ops[t].op = "get" THEN "read" ELSE "write",
            !.ops[t].i = 1,
            !.ops[t].todo = IF composite.ops[t].op = "set" THEN TierIndexes ELSE {}]
    /\ UNCHANGED tiers
    /\ UNCH_Composite

\* The end of the `async with` block: the lock is released.
Released(c, t, ret) ==
    [c EXCEPT !.lock = 0, !.ops[t].pc = "done", !.ops[t].ret = ret]

\* value = await cache.get(key) for the tier the loop of get is at.
OpRead(t) ==
    LET o == composite.ops[t]
        value == TierValue(config.tier_storages, tiers, o.i, o.key, now)
    IN /\ o.pc = "read"
       /\ ~TierBlocks(config.tier_storages, tiers, o.i, o.key, now)
       /\ composite' =
             IF value # None
             THEN IF o.i = 1 THEN Released(composite, t, value)
                  ELSE [composite EXCEPT !.ops[t].pc = "backfill",
                                         !.ops[t].value = value,
                                         !.ops[t].todo = BackfillRange(o.i)]
             ELSE IF o.i = Len(config.tier_storages)
             THEN Released(composite, t, None)
             ELSE [composite EXCEPT !.ops[t].i = o.i + 1]
       /\ UNCHANGED tiers
       /\ UNCH_Composite

\* await self.caches[j].set(key, value), for j in range(i) in turn.
OpBackfill(t) ==
    LET o == composite.ops[t]
        j == FirstIn(o.todo)
    IN /\ o.pc = "backfill"
       /\ tiers' = [tiers EXCEPT ![j] =
                       StoreAfterSetTtl(config.tier_storages[j], tiers[j], o.key,
                                        o.value, NoTtl, now, FALSE)]
       /\ composite' =
             IF o.todo = {j} THEN Released(composite, t, o.value)
             ELSE [composite EXCEPT !.ops[t].todo = o.todo \ {j}]
       /\ UNCH_Composite

\* One of the gathered cache.set(key, value, ttl) completes.
OpWrite(t, j) ==
    LET o == composite.ops[t]
    IN /\ o.pc = "write"
       /\ j \in o.todo
       /\ tiers' = [tiers EXCEPT ![j] =
                       StoreAfterSetTtl(config.tier_storages[j], tiers[j], o.key,
                                        o.value, NoTtl, now, FALSE)]
       /\ composite' =
             IF o.todo = {j} THEN Released(composite, t, None)
             ELSE [composite EXCEPT !.ops[t].todo = o.todo \ {j}]
       /\ UNCH_Composite

\* The host awaits the call's result and may call again.
OpReturn(t) ==
    /\ composite.ops[t].pc = "done"
    /\ \A u \in Tasks : composite.ops[u].pc \in {"done", "idle"}
    /\ composite' = [composite EXCEPT !.ops[t] = IdleOp]
    /\ UNCHANGED tiers
    /\ UNCH_Composite

NextComposite ==
    \/ \E i \in TierIndexes : Seed(i)
    \/ \E t \in Tasks :
          \/ OpBegin(t, "get", None)
          \/ OpBegin(t, "set", NewValue)
          \/ OpWait(t)
          \/ OpAcquire(t)
          \/ OpRead(t)
          \/ OpBackfill(t)
          \/ \E j \in TierIndexes : OpWrite(t, j)
          \/ OpReturn(t)

SpecComposite == InitTiered /\ [][NextComposite]_vars

\* C40: when a get(k) and a set(k, v) made through one TieredCache have
\* both completed, tier 0 holds v, whatever the get found and wrote back;
\* and while one of them holds the lock the other has not passed it.
C40_BackfillNeverOverwrites ==
    /\ \A t1, t2 \in Tasks :
          (/\ composite.ops[t1].op = "get" /\ composite.ops[t1].pc = "done"
           /\ composite.ops[t2].op = "set" /\ composite.ops[t2].pc = "done")
          => TierValue(config.tier_storages, tiers, 1, OpKey, now)
                = composite.ops[t2].value
    /\ Cardinality({t \in Tasks :
          composite.ops[t].pc \in {"read", "backfill", "write"}}) <= 1

\* C40, a case: the get found the old value behind tier 0 and wrote it
\* back while the set was waiting for the lock.
C40_Witness ==
    \E t1, t2 \in Tasks :
        /\ composite.ops[t1].op = "get" /\ composite.ops[t1].pc = "done"
        /\ composite.ops[t1].i > 1 /\ composite.ops[t1].ret = OldValue
        /\ composite.ops[t2].op = "set" /\ composite.ops[t2].pc = "done"
        /\ composite.ops[t2].g_waited
        /\ tiers[1][OpKey].value = NewValue
====
